---- MODULE Spec2Model ----
(***************************************************************************)
(* A model of build.py of vinner21/water_follow: the season / tournament / *)
(* roster cache pipeline of main(), the roster resolution of               *)
(* collect_tournament_data() and the cache (de)serialisation.              *)
(*                                                                         *)
(* Three specifications share the module:                                  *)
(*   Spec        main() run repeatedly over one cache directory            *)
(*   SpecCollect collect_tournament_data() called repeatedly over one      *)
(*               roster cache directory while the clock advances           *)
(*   SpecRT      _serialize_category / json dump / json load /             *)
(*               _deserialize_category applied to a Category               *)
(*                                                                         *)
(* Conventions.  Python's None is the empty sequence and a present value x *)
(* is <<x>> (None == <<>>, Some(x) == <<x>>).  A dict is a function, an    *)
(* OrderedDict is a sequence of records carrying their key, a list is a    *)
(* sequence and a set is a set.  A failed file write is an OSError raised  *)
(* by open(): it leaves the file as it was.                                *)
(***************************************************************************)
EXTENDS Integers, Sequences, FiniteSets, TLC

VARIABLES
    \* ---- main(): the cache directory and the run in progress
    seasonFiles,        \* _data/seasons/<season_id>.json : season id -> None | <<payload>>
    tFiles,             \* _data/seasons/t_<id>.json      : tournament id -> None | <<serialized category>>
    pc,                 \* position of main()
    runs,               \* number of runs started
    seasons_raw,        \* OrderedDict of discover_seasons after the merge step
    idx,                \* index of the season the loop of main() is at
    tournaments_with_us,\* result of discover_club_tournaments (current season)
    k,                  \* index of the tournament the collection loop is at
    categories_data,    \* categories of the season being assembled
    all_season_data,    \* OrderedDict of assembled season records
    calls,              \* the cache / API operations invoked so far in this run, in order
    outcome,            \* how the last finished run ended, and what it rendered
    flaggedCurrent,     \* season ids flagged current by discovery in this run
    notAlwaysFinished,  \* season ids that some run so far did not report as finished
    apiRuns,            \* season id -> number of runs with Discovery/Collector calls for its tournaments
    \* ---- collect_tournament_data(): the roster cache directory and the clock
    rosterFiles,        \* _data/seasons/rosters/r_<team>.json : team id -> None | <<[mtime, roster]>>
    now,                \* time.time(), in seconds
    col,                \* the frame of the last collect_tournament_data call at its return
    \* ---- cache round trip
    rt,                 \* the stage of a category on its way to disk and back
    \* ---- the functions of discovery, assembly and collection, applied on their own
    fn                  \* the function applied last, with its arguments and its result

mainVars == <<seasonFiles, tFiles, pc, runs, seasons_raw, idx,
              tournaments_with_us, k, categories_data, all_season_data, calls,
              outcome, flaggedCurrent, notAlwaysFinished, apiRuns>>
colVars == <<rosterFiles, now, col>>
rtVars == <<rt>>
fnVars == <<fn>>
vars == <<mainVars, colVars, rtVars, fnVars>>

-----------------------------------------------------------------------------
(* Generic helpers *)

None == <<>>
Some(x) == <<x>>
IsNone(o) == o = <<>>
Val(o) == o[1]

Range(s) == {s[i] : i \in DOMAIN s}

RECURSIVE Concat(_)
Concat(ss) == IF ss = <<>> THEN <<>> ELSE Head(ss) \o Concat(Tail(ss))

\* Python's list.sort(key=...): stable, ascending; keys[i] is the integer key of s[i].
SortByKey(s, keys) ==
    LET n == Len(s)
        before(j, i) == (keys[j] < keys[i]) \/ (keys[j] = keys[i] /\ j < i)
        rank(i) == Cardinality({j \in 1..n : before(j, i)}) + 1
    IN  [p \in 1..n |-> s[CHOOSE i \in 1..n : rank(i) = p]]

\* Python's order of strings, on texts given as sequences of comparable parts:
\* the first differing part decides, and a proper prefix comes first.
TextLess(a, b) ==
    \E i \in 1..Len(b) :
        /\ \A j \in 1..(i - 1) : j <= Len(a) /\ a[j] = b[j]
        /\ (i > Len(a) \/ a[i] < b[i])

\* list.sort(key=...) with string keys: stable, ascending; keys[i] is the key of s[i].
SortByTextKey(s, keys) ==
    LET n == Len(s)
        before(j, i) == TextLess(keys[j], keys[i]) \/ (keys[j] = keys[i] /\ j < i)
        rank(i) == Cardinality({j \in 1..n : before(j, i)}) + 1
    IN  [p \in 1..n |-> s[CHOOSE i \in 1..n : rank(i) = p]]

\* All the orders in which iterating a Python set may yield its members.
ListsOf(S) == {s \in [1..Cardinality(S) -> S] : Range(s) = S}

-----------------------------------------------------------------------------
(* Bounds and the upstream data the runs are drawn from *)

MaxRuns == 2

SeasonIds == {"s1", "s2"}
TournamentIds == {"t1", "t2", "t3"}
\* The order in which the manager endpoint lists its tournaments.
UpstreamOrder == <<"t1", "t2", "t3">>
ApiStatuses == {"in_progress", "finished", "draft"}

SeasonOf(t) == IF t = "t2" THEN "s2" ELSE "s1"
OrderOf(t) == CASE t = "t1" -> Some(2) [] t = "t2" -> Some(1) [] OTHER -> None
ClubTeamOf(t) == CASE t = "t1" -> "a" [] t = "t2" -> "b" [] OTHER -> "c"
\* datetime.now().year
NowYear == 2026

\* Tournament names, as sequences of characters.
NameOf(t) ==
    CASE t = "t1" -> <<"C", "A", "D", "E", "T">>
      [] t = "t2" -> <<"J", "U", "V">>
      [] OTHER    -> <<"A", "L", " ", "2", "0", "2", "5", "/", "2", "6">>

\* A match date is None (null) or the upstream text "YYYY-MM-DD HH:MM:SS", held as
\* the sequence of its zero-padded fields <<YYYY, MM, DD, HH, MM, SS>>.
DateText(y, m, d) == Some(<<y, m, d, 18, 0, 0>>)

MatchesOf(t) ==
    CASE t = "t1" -> <<[id |-> "m1", date |-> DateText(2024, 10, 5)]>>
      [] t = "t2" -> <<[id |-> "m2", date |-> DateText(2025, 3, 8)]>>
      [] OTHER    -> <<[id |-> "m3", date |-> None]>>

\* The Category collect_tournament_data returns for tournament t when it finds groups.
UpstreamCategory(t) ==
    [tournament_id |-> t,
     tournament_name |-> NameOf(t),
     our_teams |-> <<[id |-> ClubTeamOf(t), name |-> "CLUB", avatar |-> ""]>>,
     our_team_ids |-> {ClubTeamOf(t)},
     groups |-> <<[id |-> "g", name |-> "Grup A",
                   standings |-> <<[id |-> ClubTeamOf(t), position |-> 1]>>,
                   our_team_ids |-> {ClubTeamOf(t)}]>>,
     matches |-> MatchesOf(t),
     team_names |-> (ClubTeamOf(t) :> "CLUB"),
     rosters |-> (ClubTeamOf(t) :> <<>>)]

-----------------------------------------------------------------------------
(* Cache records: _serialize_category / _deserialize_category *)

\* The orders list(g["our_team_ids"]) may take, one per group.
GroupOrders(cat) ==
    {f \in [DOMAIN cat.groups -> UNION {ListsOf(cat.groups[i].our_team_ids) : i \in DOMAIN cat.groups}] :
        \A i \in DOMAIN cat.groups : f[i] \in ListsOf(cat.groups[i].our_team_ids)}

\* A serialisation that writes the category's list into every group.
SerializeCategoryGroupSlip(cat, top, grp) ==
    [tournament_id |-> cat.tournament_id,
     tournament_name |-> cat.tournament_name,
     our_teams |-> cat.our_teams,
     our_team_ids |-> top,
     matches |-> cat.matches,
     team_names |-> cat.team_names,
     rosters |-> cat.rosters,
     groups |-> [i \in DOMAIN cat.groups |->
                    [id |-> cat.groups[i].id,
                     name |-> cat.groups[i].name,
                     standings |-> cat.groups[i].standings,
                     our_team_ids |-> top]]]

\* _serialize_category, with list(set) yielding the orders top and grp.
SerializeCategory(cat, top, grp) ==
    [tournament_id |-> cat.tournament_id,
     tournament_name |-> cat.tournament_name,
     our_teams |-> cat.our_teams,
     our_team_ids |-> top,
     matches |-> cat.matches,
     team_names |-> cat.team_names,
     rosters |-> cat.rosters,
     groups |-> [i \in DOMAIN cat.groups |->
                    [id |-> cat.groups[i].id,
                     name |-> cat.groups[i].name,
                     standings |-> cat.groups[i].standings,
                     our_team_ids |-> grp[i]]]]

\* Every form _serialize_category may produce for cat.
SerializedForms(cat) ==
    {SerializeCategory(cat, top, grp) : top \in ListsOf(cat.our_team_ids), grp \in GroupOrders(cat)}

\* set(list)
SetOfList(l) == Range(l)

DeserializeGroup(g) == [g EXCEPT !.our_team_ids = SetOfList(g.our_team_ids)]

\* _deserialize_category
DeserializeCategory(c) ==
    [c EXCEPT !.our_team_ids = SetOfList(c.our_team_ids),
              !.groups = [i \in DOMAIN c.groups |-> DeserializeGroup(c.groups[i])]]

\* The payloads save_season_cache may write.
SeasonPayloads(season_id, season_label, cats) ==
    {[season_id |-> season_id, season_label |-> season_label,
      tournaments |-> ts, refreshed_at |-> "now"] :
        ts \in {f \in [DOMAIN cats -> UNION {SerializedForms(cats[i]) : i \in DOMAIN cats}] :
                    \A i \in DOMAIN cats : f[i] \in SerializedForms(cats[i])}}

\* load_season_cache: None when the file is absent, else the payload with its sets restored.
LoadSeasonCache(files, season_id) ==
    IF IsNone(files[season_id]) THEN None
    ELSE LET data == Val(files[season_id])
         IN  Some([data EXCEPT !.tournaments =
                      [i \in DOMAIN data.tournaments |-> DeserializeCategory(data.tournaments[i])]])

\* load_tournament_cache
LoadTournamentCache(files, tournament_id) ==
    IF IsNone(files[tournament_id]) THEN None
    ELSE Some(DeserializeCategory(Val(files[tournament_id])))

\* A cleanup whose file name test matches nothing.
CleanupLeavesFiles(files) == files

\* cleanup_tournament_caches: every t_*.json of the directory is removed.
CleanupTournamentCaches(files) == [t \in DOMAIN files |-> None]

-----------------------------------------------------------------------------
(* Season helpers *)

SeasonLabel(start_year) == [start |-> start_year, suffix |-> (start_year + 1) % 100]

\* Labels are "YYYY-YY" strings; with four-digit years their string order is this key's.
LabelKey(label) == label.start * 100 + label.suffix

\* datetime.strptime(d, "%Y-%m-%d %H:%M:%S"): the datetime, or None where it raises
\* ValueError (a text of another shape, a field out of range).
ParseDate(d) ==
    IF /\ Len(d) = 6
       /\ d[1] \in 1..9999 /\ d[2] \in 1..12 /\ d[3] \in 1..31
       /\ d[4] \in 0..23 /\ d[5] \in 0..59 /\ d[6] \in 0..61
    THEN Some([year |-> d[1], month |-> d[2], rest |-> <<d[3], d[4], d[5], d[6]>>])
    ELSE None

\* The dates of all matches that have a text strptime accepts.
AllDates(cats) ==
    UNION {{Val(ParseDate(Val(cats[i].matches[j].date))) :
                j \in {j \in DOMAIN cats[i].matches :
                          /\ ~IsNone(cats[i].matches[j].date)
                          /\ Val(cats[i].matches[j].date) # <<>>
                          /\ ~IsNone(ParseDate(Val(cats[i].matches[j].date)))}} :
            i \in DOMAIN cats}

\* datetime order: d is not after e.
DateBefore(d, e) ==
    LET dt(x) == <<x.year, x.month>> \o x.rest
    IN  d = e \/ TextLess(dt(d), dt(e))

\* A start year whose season begins in June.
StartYearFromJune(earliest) ==
    IF earliest.month >= 6 THEN earliest.year ELSE earliest.year - 1

\* The season of a date: July or later starts that calendar year's season.
StartYear(earliest) ==
    IF earliest.month >= 7 THEN earliest.year ELSE earliest.year - 1

Digits == <<"0", "1", "2", "3", "4", "5", "6", "7", "8", "9">>
IsDigit(c) == c \in Range(Digits)
DigitValue(c) == (CHOOSE i \in DOMAIN Digits : Digits[i] = c) - 1

\* re.search(r"(\d{4})[/-](\d{2,4})", name): int(group(1)) of the leftmost match, or None.
SearchYear(name) ==
    LET hits == {p \in DOMAIN name :
                    /\ p + 6 <= Len(name)
                    /\ \A q \in p..(p + 3) : IsDigit(name[q])
                    /\ name[p + 4] \in {"/", "-"}
                    /\ IsDigit(name[p + 5]) /\ IsDigit(name[p + 6])}
    IN  IF hits = {} THEN None
        ELSE LET p == CHOOSE h \in hits : \A g \in hits : h <= g
             IN  Some(DigitValue(name[p]) * 1000 + DigitValue(name[p + 1]) * 100
                      + DigitValue(name[p + 2]) * 10 + DigitValue(name[p + 3]))

\* An inference that looks at the tournament names before the match dates.
InferNamesFirst(cats) ==
    LET all_dates == AllDates(cats)
        named == {i \in DOMAIN cats : ~IsNone(SearchYear(cats[i].tournament_name))}
    IN  IF named # {}
        THEN LET first == CHOOSE i \in named : \A j \in named : i <= j
                 year == Val(SearchYear(cats[first].tournament_name))
             IN  [label |-> SeasonLabel(year), start_year |-> year]
        ELSE IF all_dates # {}
        THEN LET earliest == CHOOSE d \in all_dates : \A e \in all_dates : DateBefore(d, e)
             IN  [label |-> SeasonLabel(StartYear(earliest)), start_year |-> StartYear(earliest)]
        ELSE [label |-> SeasonLabel(NowYear), start_year |-> NowYear]

\* infer_season_info: [label, start_year]
InferSeasonInfo(cats) ==
    LET all_dates == AllDates(cats)
        named == {i \in DOMAIN cats : ~IsNone(SearchYear(cats[i].tournament_name))}
    IN  IF all_dates # {}
        THEN LET earliest == CHOOSE d \in all_dates : \A e \in all_dates : DateBefore(d, e)
                 start_year == StartYear(earliest)
             IN  [label |-> SeasonLabel(start_year), start_year |-> start_year]
        ELSE IF named # {}
        THEN LET first == CHOOSE i \in named : \A j \in named : i <= j
                 year == Val(SearchYear(cats[first].tournament_name))
             IN  [label |-> SeasonLabel(year), start_year |-> year]
        ELSE [label |-> SeasonLabel(NowYear), start_year |-> NowYear]

-----------------------------------------------------------------------------
(* Matches of a tournament *)

\* collect_tournament_data, lines 507-522: the matches of every round of every
\* group, in the order of the groups, of their rounds and of each answer.
\* groups[g][r] is what get_round_matches answers for round r of group g.
AllMatches(groups) ==
    Concat([g \in DOMAIN groups |->
               Concat([r \in DOMAIN groups[g] |->
                          [i \in DOMAIN groups[g][r] |->
                              [id |-> groups[g][r][i].id,
                               date |-> groups[g][r][i].date,
                               group_id |-> g,
                               round_order |-> r]]])])

\* A key that puts the matches without a date first.
MatchSortKeyEmpty(m) ==
    IF IsNone(m.date) \/ Val(m.date) = <<>> THEN <<>> ELSE Val(m.date)

\* m["date"] or "9999"
MatchSortKey(m) ==
    IF IsNone(m.date) \/ Val(m.date) = <<>> THEN <<9999>> ELSE Val(m.date)

\* all_matches.sort(key=lambda m: m["date"] or "9999")
SortMatches(all_matches) ==
    SortByTextKey(all_matches, [i \in DOMAIN all_matches |-> MatchSortKey(all_matches[i])])

\* Names, by where they come from: a standings row, the answer of teams/<id>,
\* f"Equip {mid}", and the tournament's our_teams.
StandingsName(id) == [from |-> "standings", id |-> id]
LookupName(id) == [from |-> "lookup", id |-> id]
PlaceholderName(id) == [from |-> "placeholder", id |-> id]
OurTeamName(id) == [from |-> "our_teams", id |-> id]

\* lines 524-529: the team ids of the matches that are not yet keys of team_names.
\* A home_team or away_team of None is falsy and is passed over.
MissingIds(all_matches, team_names) ==
    {Val(all_matches[i].home_team) :
        i \in {i \in DOMAIN all_matches :
                 /\ ~IsNone(all_matches[i].home_team)
                 /\ Val(all_matches[i].home_team) \notin DOMAIN team_names}}
    \cup
    {Val(all_matches[i].away_team) :
        i \in {i \in DOMAIN all_matches :
                 /\ ~IsNone(all_matches[i].away_team)
                 /\ Val(all_matches[i].away_team) \notin DOMAIN team_names}}

\* A lookup whose failure leaves the team without a name.
LookedUpOrAbsent(mid, answer) ==
    IF answer = "ok" THEN Some(LookupName(mid)) ELSE None

\* lines 530-535: the name of a missing team, by how api_get("teams/<mid>") ends.
LookedUp(mid, answer) ==
    IF answer = "ok" THEN Some(LookupName(mid)) ELSE Some(PlaceholderName(mid))

\* lines 495, 501-504, 524-538: team_names of the Category. standing_ids are the
\* ids of the rows of all standings, our_team_ids those of tournament["our_teams"],
\* lookup[mid] how the request for a missing team ends.
TeamNames(standing_ids, all_matches, our_team_ids, lookup) ==
    LET from_standings == [t \in standing_ids |-> StandingsName(t)]
        missing_ids == MissingIds(all_matches, from_standings)
        named == {mid \in missing_ids : ~IsNone(LookedUp(mid, lookup[mid]))}
    IN  [t \in standing_ids \cup named \cup our_team_ids |->
            IF t \in our_team_ids THEN OurTeamName(t)
            ELSE IF t \in standing_ids THEN StandingsName(t)
            ELSE Val(LookedUp(t, lookup[t]))]

-----------------------------------------------------------------------------
(* Matches of a round *)

\* get_round_matches, lines 401-429: one pass over the included list from
\* position i on.  results_map holds the results met so far, by id; a match takes
\* from it, in the order of its references, the results that are in it when the
\* match is met.
RECURSIVE RoundLoop(_, _, _, _)
RoundLoop(included, i, results_map, matches) ==
    IF i > Len(included) THEN matches
    ELSE LET inc == included[i]
         IN  IF inc.type = "result"
             THEN RoundLoop(included, i + 1,
                      [id \in DOMAIN results_map \cup {inc.id} |->
                          IF id = inc.id
                          THEN [value |-> inc.value, team_id |-> inc.team_id,
                                match_id |-> inc.match_id]
                          ELSE results_map[id]],
                      matches)
             ELSE IF inc.type = "match"
             THEN LET known == SelectSeq(inc.results, LAMBDA ref : ref \in DOMAIN results_map)
                  IN  RoundLoop(included, i + 1, results_map,
                          Append(matches,
                                 [id |-> inc.id,
                                  results |-> [j \in DOMAIN known |-> results_map[known[j]]]]))
             ELSE RoundLoop(included, i + 1, results_map, matches)

\* get_round_matches: the matches of the answer, each with its results.
GetRoundMatches(included) == RoundLoop(included, 1, <<>>, <<>>)

-----------------------------------------------------------------------------
(* Match outcomes *)

\* match_score's loop: [home, away] after the results from position i on; a
\* result's value is None for a JSON null.
RECURSIVE MatchScoreLoop(_, _, _)
MatchScoreLoop(match, i, score) ==
    IF i > Len(match.results) THEN score
    ELSE LET r == match.results[i]
         IN  MatchScoreLoop(match, i + 1,
                IF Some(r.team_id) = match.home_team THEN [score EXCEPT !.home = r.value]
                ELSE IF Some(r.team_id) = match.away_team THEN [score EXCEPT !.away = r.value]
                ELSE score)

\* match_score: (home_score, away_score), None where no result names the side.
MatchScore(match) == MatchScoreLoop(match, 1, [home |-> None, away |-> None])

\* A classification that takes the home score for the club's.
MatchResultClassHomeOnly(match, our_team_ids) ==
    IF ~match.finished THEN "upcoming"
    ELSE LET hs == MatchScore(match).home
             aws == MatchScore(match).away
         IN  IF IsNone(hs) \/ IsNone(aws) THEN "unknown"
             ELSE IF Val(hs) > Val(aws) THEN "win"
             ELSE IF Val(hs) < Val(aws) THEN "loss"
             ELSE "draw"

\* match_result_class
MatchResultClass(match, our_team_ids) ==
    IF ~match.finished THEN "upcoming"
    ELSE LET hs == MatchScore(match).home
             aws == MatchScore(match).away
         IN  IF IsNone(hs) \/ IsNone(aws) THEN "unknown"
             ELSE LET is_home == /\ ~IsNone(match.home_team)
                                 /\ Val(match.home_team) \in our_team_ids
                      ours == IF is_home THEN Val(hs) ELSE Val(aws)
                      theirs == IF is_home THEN Val(aws) ELSE Val(hs)
                  IN  IF ours > theirs THEN "win"
                      ELSE IF ours < theirs THEN "loss"
                      ELSE "draw"

\* generate_html, lines 1270-1277: the record of a team entry over its matches.
TeamRecord(matches, team_ids) ==
    LET past == SelectSeq(matches, LAMBDA m : m.finished)
        wins == Cardinality({i \in DOMAIN past : MatchResultClass(past[i], team_ids) = "win"})
        losses == Cardinality({i \in DOMAIN past : MatchResultClass(past[i], team_ids) = "loss"})
    IN  [past |-> past, wins |-> wins, losses |-> losses,
         draws |-> Len(past) - wins - losses]

-----------------------------------------------------------------------------
(* Discovery *)

\* The "included" list of the manager endpoint when the tournaments have these statuses.
ManagerResponse(status) ==
    [i \in DOMAIN UpstreamOrder |->
        [type |-> "tournament",
         id |-> UpstreamOrder[i], name |-> NameOf(UpstreamOrder[i]),
         status |-> status[UpstreamOrder[i]], order |-> OrderOf(UpstreamOrder[i]),
         season |-> Some(SeasonOf(UpstreamOrder[i]))]]

HasSeason(seasons, sid) == \E i \in DOMAIN seasons : seasons[i].sid = sid
IndexOfSeason(seasons, sid) == CHOOSE i \in DOMAIN seasons : seasons[i].sid = sid

\* Every status counts.
KeptStatusAny(status) == TRUE

\* The statuses discover_seasons keeps.
KeptStatus(status) == status \in {"in_progress", "finished"}

RECURSIVE DiscoverSeasonsLoop(_, _)
DiscoverSeasonsLoop(included, seasons) ==
    IF included = <<>> THEN seasons
    ELSE LET inc == Head(included)
             sid == IF IsNone(inc.season) THEN "unknown" ELSE Val(inc.season)
             t == [id |-> inc.id, name |-> inc.name, order |-> inc.order,
                   season_id |-> sid, api_status |-> inc.status]
             known == IF HasSeason(seasons, sid) THEN seasons
                      ELSE Append(seasons, [sid |-> sid, tournaments |-> <<>>,
                                            has_in_progress |-> FALSE])
             added == [i \in DOMAIN known |->
                          IF known[i].sid = sid
                          THEN [known[i] EXCEPT
                                  !.tournaments = Append(@, t),
                                  !.has_in_progress = @ \/ inc.status = "in_progress"]
                          ELSE known[i]]
         IN  IF inc.type = "tournament" /\ KeptStatus(inc.status)
             THEN DiscoverSeasonsLoop(Tail(included), added)
             ELSE DiscoverSeasonsLoop(Tail(included), seasons)

\* discover_seasons: the OrderedDict season id -> {tournaments, has_in_progress}
DiscoverSeasons(included) == DiscoverSeasonsLoop(included, <<>>)

\* The first current season, whatever its size.
PrimarySeasonFirst(seasons, current) == CHOOSE i \in current : \A j \in current : i <= j

\* max(current_sids, key=len(tournaments)): the first of the largest.
PrimarySeason(seasons, current) ==
    CHOOSE i \in current :
        \A j \in current :
            \/ Len(seasons[i].tournaments) > Len(seasons[j].tournaments)
            \/ (Len(seasons[i].tournaments) = Len(seasons[j].tournaments) /\ i <= j)

\* A merge step that leaves the current season ids apart.
MergeNothing(seasons) == seasons

\* The merge step of main: several current season ids become the primary one.
MergeCurrentSeasons(seasons) ==
    LET current == {i \in DOMAIN seasons : seasons[i].has_in_progress}
    IN  IF Cardinality(current) <= 1 THEN seasons
        ELSE LET primary == PrimarySeason(seasons, current)
                 others == SelectSeq([i \in DOMAIN seasons |-> i],
                                     LAMBDA i : i \in current /\ i # primary)
                 moved == Concat([n \in DOMAIN others |-> seasons[others[n]].tournaments])
                 merged == [seasons EXCEPT ![primary].tournaments = @ \o moved]
                 kept == SelectSeq([i \in DOMAIN seasons |-> i],
                                   LAMBDA i : i \notin current \/ i = primary)
             IN  [n \in DOMAIN kept |-> merged[kept[n]]]

\* key=lambda t: t.get("order") or 999
OrderKey(t) == IF IsNone(t.order) \/ t.order = Some(0) THEN 999 ELSE Val(t.order)

\* config["club_id"], and another club
ClubId == "club"
OtherClubId == "rival"

\* The answer of tournaments/<id>?include=teams: the request failed, or its
\* "included" list; the club relationship of an entry is None or <<club id>>.
TeamsError == [status |-> "error", included |-> <<>>]
TeamsOk(included) == [status |-> "ok", included |-> included]
TeamEntry(type, id, name, club) == [type |-> type, id |-> id, name |-> name, club |-> club]

\* The answer for tournament t of the upstream data: lookup is "error" (the
\* request failed), "none" (no team of the club) or "club".
TeamsResponse(t, lookup) ==
    CASE lookup = "error" -> TeamsError
      [] lookup = "none"  -> TeamsOk(<<TeamEntry("team", "x", "RIVAL", Some(OtherClubId))>>)
      [] OTHER            -> TeamsOk(<<TeamEntry("team", "x", "RIVAL", Some(OtherClubId)),
                                       TeamEntry("team", ClubTeamOf(t), "CLUB", Some(ClubId))>>)

\* Every team of the answer, whatever its club.
AllTeams(included, club_id) ==
    LET teams == SelectSeq(included, LAMBDA inc : inc.type = "team")
    IN  [i \in DOMAIN teams |-> [id |-> teams[i].id, name |-> teams[i].name, avatar |-> ""]]

\* lines 346-353: the teams of the answer that belong to club_id
OurTeams(included, club_id) ==
    LET teams == SelectSeq(included,
                           LAMBDA inc : inc.type = "team" /\ inc.club = Some(club_id))
    IN  [i \in DOMAIN teams |-> [id |-> teams[i].id, name |-> teams[i].name, avatar |-> ""]]

\* discover_club_tournaments: teams_api[id] is the answer of the teams request for
\* tournament id.
DiscoverClubTournaments(tournaments, club_id, teams_api) ==
    LET with_us == SelectSeq(tournaments,
                       LAMBDA t : /\ teams_api[t.id].status = "ok"
                                  /\ OurTeams(teams_api[t.id].included, club_id) # <<>>)
        result == [i \in DOMAIN with_us |->
                      [id |-> with_us[i].id, name |-> with_us[i].name,
                       order |-> with_us[i].order, season_id |-> with_us[i].season_id,
                       api_status |-> with_us[i].api_status,
                       our_teams |-> OurTeams(teams_api[with_us[i].id].included, club_id)]]
    IN  SortByKey(result, [i \in DOMAIN result |-> OrderKey(result[i])])

-----------------------------------------------------------------------------
(* Season Assembler: the decisions of main *)

\* A build that never reads the season cache.
SeasonCacheNeverHit(is_current, cached) == FALSE

\* line 1519-1521: a finished season with a season cache is taken from it.
SeasonCacheHit(is_current, cached) == ~is_current /\ ~IsNone(cached)

\* A build that tries the tournament cache whatever the tournament's status.
TriesTournamentCacheAlways(api_status) == TRUE

\* line 1549: the tournament cache is tried for this tournament.
TriesTournamentCache(api_status) == api_status = "finished"

\* line 1578: the collected tournament is written to the tournament cache.
SavesTournamentCache(api_status) == api_status = "finished"

\* A build that writes the season cache whatever the season's status.
SavesSeasonCacheAlways(is_current) == TRUE

\* line 1603: the assembled season is written to the season cache.
SavesSeasonCache(is_current) == ~is_current

TournamentCacheHit(t, files) ==
    TriesTournamentCache(t.api_status) /\ ~IsNone(LoadTournamentCache(files, t.id))

\* lines 1546-1555
ApiTournaments(tournaments, files) ==
    SelectSeq(tournaments, LAMBDA t : ~TournamentCacheHit(t, files))

CachedCategories(tournaments, files) ==
    LET hits == SelectSeq(tournaments, LAMBDA t : TournamentCacheHit(t, files))
    IN  [i \in DOMAIN hits |-> Val(LoadTournamentCache(files, hits[i].id))]

\* The label-collision dedup of main (lines 1615-1640).
RECURSIVE DedupLoop(_, _, _, _)
DedupLoop(data, i, seen_labels, duplicates_to_remove) ==
    IF i > Len(data) THEN [data |-> data, duplicates_to_remove |-> duplicates_to_remove]
    ELSE LET sdata == data[i]
             hit == {p \in seen_labels : p.label = sdata.label}
         IN  IF hit = {}
             THEN DedupLoop(data, i + 1,
                            seen_labels \cup {[label |-> sdata.label, sid |-> sdata.sid]},
                            duplicates_to_remove)
             ELSE LET prev_sid == (CHOOSE p \in hit : TRUE).sid
                      j == IndexOfSeason(data, prev_sid)
                      prev == data[j]
                  IN  IF Len(sdata.categories_data) > Len(prev.categories_data)
                      THEN DedupLoop(
                             [data EXCEPT
                                ![i].categories_data = @ \o prev.categories_data,
                                ![i].status = IF prev.status = "current" THEN "current" ELSE @],
                             i + 1,
                             (seen_labels \ hit) \cup {[label |-> sdata.label, sid |-> sdata.sid]},
                             Append(duplicates_to_remove, prev_sid))
                      ELSE DedupLoop(
                             [data EXCEPT
                                ![j].categories_data = @ \o sdata.categories_data,
                                ![j].status = IF sdata.status = "current" THEN "current" ELSE @],
                             i + 1, seen_labels,
                             Append(duplicates_to_remove, sdata.sid))

\* A dedup that drops the later records of a label without merging their categories.
DedupWithoutMerge(data) ==
    LET first == SelectSeq([i \in DOMAIN data |-> i],
                           LAMBDA i : \A j \in 1..(i - 1) : data[j].label # data[i].label)
    IN  [n \in DOMAIN first |-> data[first[n]]]

\* A dedup that merges every record with itself.
DedupSelfMerge(data) ==
    [i \in DOMAIN data |-> [data[i] EXCEPT !.categories_data = @ \o @]]

DedupSeasons(data) ==
    LET r == DedupLoop(data, 1, {}, <<>>)
    IN  SelectSeq(r.data, LAMBDA sd : sd.sid \notin Range(r.duplicates_to_remove))

\* The key of an ascending sort.
FinishedSortKeyAscending(sd) == LabelKey(sd.label)

\* finished.sort(key=label, reverse=True), as an ascending sort
FinishedSortKey(sd) == 0 - LabelKey(sd.label)

\* lines 1643-1646: current seasons first, then finished by label descending.
FinalOrder(data) ==
    SelectSeq(data, LAMBDA sd : sd.status = "current")
    \o LET finished == SelectSeq(data, LAMBDA sd : sd.status # "current")
       IN  SortByKey(finished, [i \in DOMAIN finished |-> FinishedSortKey(finished[i])])

-----------------------------------------------------------------------------
(* main(): one action per step of a run *)

\* One logged operation: res is "ok", or how it failed or what it found.
Call(op, id, res) == [op |-> op, id |-> id, res |-> res]
Calls(ids, op) == [i \in DOMAIN ids |-> Call(op, ids[i], "ok")]
Ids(tournaments) == [i \in DOMAIN tournaments |-> tournaments[i].id]

Idle == [status |-> "none", seasons |-> <<>>]
Running == [status |-> "running", seasons |-> <<>>]
Ended(status, seasons) == [status |-> status, seasons |-> seasons]

\* The seasons of the tournaments a run has made Discovery/Collector calls for.
ApiSeasons(cs) ==
    {SeasonOf(cs[i].id) : i \in {i \in DOMAIN cs : cs[i].op \in {"discover", "collect"}}}

\* "continue" of the season loop; the locals of the iteration are dead.
NextSeason ==
    /\ idx' = idx + 1
    /\ pc' = "loop"
    /\ tournaments_with_us' = <<>>
    /\ k' = 1
    /\ categories_data' = <<>>

\* The run ends by an exception that reaches the top level, or by sys.exit.
Abort(status) ==
    /\ pc' = "idle"
    /\ outcome' = Ended(status, <<>>)
    /\ idx' = 1
    /\ seasons_raw' = <<>>
    /\ all_season_data' = <<>>
    /\ tournaments_with_us' = <<>>
    /\ k' = 1
    /\ categories_data' = <<>>

\* Lines 1488-1506 for every answer of the manager endpoint: the seasons after the
\* merge, and the season ids discover_seasons reported as current and as finished.
RunInputs ==
    {LET discovered == DiscoverSeasons(ManagerResponse(status))
     IN  [seasons_raw |-> MergeCurrentSeasons(discovered),
          current |-> {discovered[i].sid :
                          i \in {i \in DOMAIN discovered : discovered[i].has_in_progress}},
          finished |-> {discovered[i].sid :
                           i \in {i \in DOMAIN discovered : ~discovered[i].has_in_progress}}] :
     status \in [TournamentIds -> ApiStatuses]}

\* lines 1488-1513: discover_seasons and the merge of the current season ids.
StartRun ==
    /\ pc = "idle"
    /\ runs < MaxRuns
    /\ \E input \in RunInputs :
          /\ seasons_raw' = input.seasons_raw
          /\ flaggedCurrent' = input.current
          /\ notAlwaysFinished' = notAlwaysFinished \cup (SeasonIds \ input.finished)
    /\ runs' = runs + 1
    /\ pc' = "loop"
    /\ idx' = 1
    /\ all_season_data' = <<>>
    /\ calls' = <<>>
    /\ outcome' = Running
    /\ tournaments_with_us' = <<>>
    /\ k' = 1
    /\ categories_data' = <<>>
    /\ UNCHANGED <<seasonFiles, tFiles, apiRuns, colVars, rtVars, fnVars>>

\* line 1488: the manager request fails; the exception ends the run.
StartRunFails ==
    /\ pc = "idle"
    /\ runs < MaxRuns
    /\ runs' = runs + 1
    /\ calls' = <<>>
    /\ flaggedCurrent' = {}
    /\ Abort("api_error")
    /\ UNCHANGED <<seasonFiles, tFiles, notAlwaysFinished, apiRuns, colVars, rtVars, fnVars>>

\* lines 1515-1540: a finished season is taken from its season cache.
SeasonFromCache ==
    /\ pc = "loop"
    /\ idx <= Len(seasons_raw)
    /\ LET sinfo == seasons_raw[idx]
           cached == LoadSeasonCache(seasonFiles, sinfo.sid)
       IN  /\ SeasonCacheHit(sinfo.has_in_progress, cached)
           /\ all_season_data' = Append(all_season_data,
                  [sid |-> sinfo.sid,
                   label |-> Val(cached).season_label,
                   status |-> "finished",
                   categories_data |-> Val(cached).tournaments])
           /\ calls' = Append(calls, Call("load_season_cache", sinfo.sid, "ok"))
    /\ NextSeason
    /\ UNCHANGED <<seasonFiles, tFiles, runs, seasons_raw, outcome, flaggedCurrent,
                   notAlwaysFinished, apiRuns, colVars, rtVars, fnVars>>

\* The teams requests of discover_club_tournaments, each with how it ended: by an
\* error, without a team of the club, or with one.
DiscoverCalls(api_tournaments, lookup) ==
    [i \in DOMAIN api_tournaments |->
        Call("discover", api_tournaments[i].id, lookup[api_tournaments[i].id])]

\* lines 1515-1568: no season cache is used; the tournament caches are tried and
\* discover_club_tournaments runs on the tournaments that are left.
DiscoverSeasonTournaments ==
    /\ pc = "loop"
    /\ idx <= Len(seasons_raw)
    /\ LET sinfo == seasons_raw[idx]
           is_current == sinfo.has_in_progress
           cached == LoadSeasonCache(seasonFiles, sinfo.sid)
           tried == SelectSeq(sinfo.tournaments, LAMBDA t : TriesTournamentCache(t.api_status))
           api_tournaments == ApiTournaments(sinfo.tournaments, tFiles)
           cached_categories == CachedCategories(sinfo.tournaments, tFiles)
           log == (IF is_current THEN <<>> ELSE <<Call("load_season_cache", sinfo.sid, "ok")>>)
                  \o Calls(Ids(tried), "load_tournament_cache")
       IN  /\ ~SeasonCacheHit(is_current, cached)
           /\ \E lookup \in [Range(Ids(api_tournaments)) -> {"error", "none", "club"}] :
                 /\ calls' = calls \o log \o DiscoverCalls(api_tournaments, lookup)
                 /\ LET with_us == DiscoverClubTournaments(api_tournaments, ClubId,
                                       [t \in DOMAIN lookup |-> TeamsResponse(t, lookup[t])])
                    IN  IF with_us = <<>> /\ cached_categories = <<>>
                        THEN NextSeason
                        ELSE /\ tournaments_with_us' = with_us
                             /\ categories_data' = cached_categories
                             /\ k' = 1
                             /\ pc' = "collect"
                             /\ idx' = idx
           /\ apiRuns' = [s \in SeasonIds |->
                            IF s \in ApiSeasons(calls \o log
                                                \o Calls(Ids(api_tournaments), "discover"))
                                     \ ApiSeasons(calls)
                            THEN apiRuns[s] + 1 ELSE apiRuns[s]]
    /\ UNCHANGED <<seasonFiles, tFiles, runs, seasons_raw, all_season_data, outcome,
                   flaggedCurrent, notAlwaysFinished, colVars, rtVars, fnVars>>

\* What collect_tournament_data returns when it returns: the Category of the
\* tournament, without groups when get_tournament_groups finds none.
CollectedCategory(t, res) ==
    IF res = "groups" THEN UpstreamCategory(t)
    ELSE [UpstreamCategory(t) EXCEPT !.groups = <<>>, !.matches = <<>>]

\* An exception of collect_tournament_data that leaves the season loop.
AfterCollectPropagates(res) == IF res = "raise" THEN "loop" ELSE "collect"

\* lines 1582-1584: an exception is caught and the loop goes on with the next
\* tournament, as it does after a return.
AfterCollect(res) == "collect"

\* A test that keeps every Category returned.
KeepsCategoryAlways(cat_data) == TRUE

\* line 1573: if cat_data["groups"]
KeepsCategory(cat_data) == cat_data.groups # <<>>

\* lines 1569-1584: one iteration of the collection loop.  collect_tournament_data
\* raises, returns a Category without groups, or returns a Category with groups; a
\* finished tournament with groups is then written to the tournament cache, and
\* an OSError of that write is caught by the except clause of line 1582.
CollectTournament ==
    /\ pc = "collect"
    /\ k <= Len(tournaments_with_us)
    /\ LET t == tournaments_with_us[k]
       IN  \E res \in {"raise", "no_groups", "groups"}, write \in {"ok", "oserror"} :
              LET cat_data == CollectedCategory(t.id, res)
                  kept == res # "raise" /\ KeepsCategory(cat_data)
              IN
              /\ (~kept \/ ~SavesTournamentCache(t.api_status)) => write = "ok"
              /\ categories_data' = IF kept THEN Append(categories_data, cat_data)
                                    ELSE categories_data
              /\ IF kept /\ SavesTournamentCache(t.api_status)
                 THEN /\ calls' = calls \o <<Call("collect", t.id, res),
                                             Call("save_tournament_cache", t.id, write)>>
                      /\ IF write = "ok"
                         THEN \E c \in SerializedForms(cat_data) :
                                 tFiles' = [tFiles EXCEPT ![t.id] = Some(c)]
                         ELSE tFiles' = tFiles
                 ELSE /\ calls' = Append(calls, Call("collect", t.id, res))
                      /\ tFiles' = tFiles
              /\ pc' = AfterCollect(res)
    /\ k' = k + 1
    /\ UNCHANGED <<seasonFiles, runs, seasons_raw, idx, tournaments_with_us,
                   all_season_data, outcome, flaggedCurrent, notAlwaysFinished, apiRuns,
                   colVars, rtVars, fnVars>>

\* lines 1586-1603: the season record is assembled from the collected categories.
AssembleSeason ==
    /\ pc = "collect"
    /\ k > Len(tournaments_with_us)
    /\ LET sinfo == seasons_raw[idx]
           is_current == sinfo.has_in_progress
           info == InferSeasonInfo(categories_data)
       IN  IF categories_data = <<>>
           THEN /\ NextSeason
                /\ UNCHANGED all_season_data
           ELSE /\ all_season_data' = Append(all_season_data,
                       [sid |-> sinfo.sid,
                        label |-> info.label,
                        status |-> IF is_current THEN "current" ELSE "finished",
                        categories_data |-> categories_data])
                /\ IF SavesSeasonCache(is_current)
                   THEN /\ pc' = "save"
                        /\ UNCHANGED <<idx, tournaments_with_us, k, categories_data>>
                   ELSE NextSeason
    /\ UNCHANGED <<seasonFiles, tFiles, runs, seasons_raw, calls, outcome, flaggedCurrent,
                   notAlwaysFinished, apiRuns, colVars, rtVars, fnVars>>

\* line 1604: save_season_cache; an OSError is caught nowhere and ends the run.
SaveSeasonCache ==
    /\ pc = "save"
    /\ LET sd == all_season_data[Len(all_season_data)]
       IN  \/ /\ \E payload \in SeasonPayloads(sd.sid, sd.label, categories_data) :
                    seasonFiles' = [seasonFiles EXCEPT ![sd.sid] = Some(payload)]
              /\ calls' = Append(calls, Call("save_season_cache", sd.sid, "ok"))
              /\ pc' = "cleanup"
              /\ UNCHANGED <<idx, tournaments_with_us, k, categories_data, seasons_raw,
                             all_season_data, outcome>>
           \/ /\ calls' = Append(calls, Call("save_season_cache", sd.sid, "oserror"))
              /\ Abort("oserror")
              /\ UNCHANGED seasonFiles
    /\ UNCHANGED <<tFiles, runs, flaggedCurrent, notAlwaysFinished, apiRuns, colVars, rtVars, fnVars>>

\* line 1606: cleanup_tournament_caches
CleanupAfterSave ==
    /\ pc = "cleanup"
    /\ tFiles' = CleanupTournamentCaches(tFiles)
    /\ calls' = Append(calls, Call("cleanup_tournament_caches", seasons_raw[idx].sid, "ok"))
    /\ NextSeason
    /\ UNCHANGED <<seasonFiles, runs, seasons_raw, all_season_data, outcome, flaggedCurrent,
                   notAlwaysFinished, apiRuns, colVars, rtVars, fnVars>>

\* A run that renders whatever was assembled.
RunOutcomeAlwaysRenders(data) == Ended("rendered", FinalOrder(DedupSeasons(data)))

\* lines 1609-1653: sys.exit(1) when nothing was assembled, else what generate_html
\* is given.
RunOutcome(data) ==
    IF data = <<>> THEN Ended("exit1", <<>>)
    ELSE Ended("rendered", FinalOrder(DedupSeasons(data)))

\* lines 1609-1653: nothing assembled ends the run by sys.exit(1); else the seasons
\* are deduplicated, ordered and handed to the renderer.
FinishRun ==
    /\ pc = "loop"
    /\ idx > Len(seasons_raw)
    /\ outcome' = RunOutcome(all_season_data)
    /\ pc' = "idle"
    /\ UNCHANGED <<seasonFiles, tFiles, runs, seasons_raw, idx, tournaments_with_us, k,
                   categories_data, all_season_data, calls, flaggedCurrent,
                   notAlwaysFinished, apiRuns, colVars, rtVars, fnVars>>

ColIdle == [mode |-> "none"]
RtIdle == [stage |-> "none"]
FnIdle == [op |-> "none"]

MainIdle ==
    /\ seasonFiles = [s \in SeasonIds |-> None]
    /\ tFiles = [t \in TournamentIds |-> None]
    /\ pc = "idle"
    /\ runs = 0
    /\ seasons_raw = <<>>
    /\ idx = 1
    /\ tournaments_with_us = <<>>
    /\ k = 1
    /\ categories_data = <<>>
    /\ all_season_data = <<>>
    /\ calls = <<>>
    /\ outcome = Idle
    /\ flaggedCurrent = {}
    /\ notAlwaysFinished = {}
    /\ apiRuns = [s \in SeasonIds |-> 0]

\* The state before the first build: an empty cache directory.
Init ==
    /\ MainIdle
    /\ rosterFiles = <<>>
    /\ now = 0
    /\ col = ColIdle
    /\ rt = RtIdle
    /\ fn = FnIdle

Next ==
    \/ StartRun
    \/ StartRunFails
    \/ SeasonFromCache
    \/ DiscoverSeasonTournaments
    \/ CollectTournament
    \/ AssembleSeason
    \/ SaveSeasonCache
    \/ CleanupAfterSave
    \/ FinishRun

Spec == Init /\ [][Next]_vars

-----------------------------------------------------------------------------
(* Roster cache and the roster resolution of collect_tournament_data *)

\* line 185: seconds per day
SecondsPerDay == 86400
\* line 567: the freshness threshold, in days
RosterMaxAgeDays == 30

TeamIds == {"a", "b", "x"}
\* The values time.time() takes, in seconds.
ClockValues == {0, 29 * SecondsPerDay, 30 * SecondsPerDay, 30 * SecondsPerDay + 1}

OldRoster == <<"old">>
\* What get_team_roster returns when the request succeeds.
FreshRoster == <<"new">>

\* The tournaments collect_tournament_data is called on: the club's teams
\* (our_teams, never empty) and the standings of its groups.
CollectInputs ==
    {[id |-> "t1", name |-> "CADET",
      our_teams |-> <<[id |-> "a", name |-> "CLUB", avatar |-> ""],
                      [id |-> "b", name |-> "CLUB B", avatar |-> ""]>>,
      groups |-> <<[id |-> "g1", name |-> "Grup A",
                    standings |-> <<[id |-> "x", position |-> 1],
                                    [id |-> "a", position |-> 2]>>]>>],
     [id |-> "t2", name |-> "JUVENIL",
      our_teams |-> <<[id |-> "b", name |-> "CLUB B", avatar |-> ""]>>,
      groups |-> <<[id |-> "g2", name |-> "Grup B",
                    standings |-> <<[id |-> "b", position |-> 1],
                                    [id |-> "x", position |-> 2]>>]>>]}

\* How the roster request and the roster cache write of one team end.
RosterOutcomes ==
    {[fetch |-> "error", write |-> "ok"],
     [fetch |-> "ok", write |-> "ok"],
     [fetch |-> "ok", write |-> "oserror"]}

\* load_roster_cache
LoadRosterCache(files, team_id) ==
    IF IsNone(files[team_id]) THEN None ELSE Some(Val(files[team_id]).roster)

\* save_roster_cache at time t
SaveRosterCache(files, team_id, roster, t) ==
    [files EXCEPT ![team_id] = Some([mtime |-> t, roster |-> roster])]

\* load_all_roster_caches: (rosters found, missing ids)
LoadAllRosterCaches(files, team_ids) ==
    [rosters |-> [t \in {t \in team_ids : ~IsNone(LoadRosterCache(files, t))} |->
                     Val(LoadRosterCache(files, t))],
     missing |-> {t \in team_ids : IsNone(LoadRosterCache(files, t))}]

\* roster_cache_age_days: None, or the quotient (t - mtime) / 86400 as a fraction
RosterCacheAgeDays(files, team_id, t) ==
    IF IsNone(files[team_id]) THEN None
    ELSE Some([num |-> t - Val(files[team_id]).mtime, den |-> SecondsPerDay])

\* A threshold that already counts a cache of exactly 30 days as stale.
NeedsRefreshAtThreshold(age) ==
    IsNone(age) \/ Val(age).num >= RosterMaxAgeDays * Val(age).den

\* line 567: age is None or age > 30
NeedsRefresh(age) ==
    IsNone(age) \/ Val(age).num > RosterMaxAgeDays * Val(age).den

\* An auto-refresh that looks at every team of the standings.
RefreshCandidatesAllTeams(our_team_ids, all_team_ids_in_groups) ==
    our_team_ids \cup all_team_ids_in_groups

\* line 565: the teams whose cache age is looked at
RefreshCandidates(our_team_ids, all_team_ids_in_groups) == our_team_ids

\* lines 562-568
OurToFetch(files, our_team_ids, all_team_ids_in_groups, is_current_season, t) ==
    IF is_current_season
    THEN {id \in RefreshCandidates(our_team_ids, all_team_ids_in_groups) :
             NeedsRefresh(RosterCacheAgeDays(files, id, t))}
    ELSE {}

\* line 556: the roster of a team whose refresh failed, full-refresh mode
RefreshFailedRoster(team_id) == <<>>

\* A fallback that forgets the cached roster.
FallbackAlwaysEmpty(cached, team_id) == <<>>

\* line 580: the roster of a team whose refresh failed, normal mode
FallbackRoster(cached, team_id) ==
    IF team_id \in DOMAIN cached THEN cached[team_id] ELSE <<>>

Succeeded(api, team_id) == api[team_id].fetch = "ok" /\ api[team_id].write = "ok"

\* lines 497-523: the groups of the Category
CollectedGroups(tournament, our_team_ids) ==
    [i \in DOMAIN tournament.groups |->
        [id |-> tournament.groups[i].id,
         name |-> tournament.groups[i].name,
         standings |-> LET rows == tournament.groups[i].standings
                       IN  SortByKey(rows, [j \in DOMAIN rows |-> rows[j].position]),
         our_team_ids |-> our_team_ids \cap
             {tournament.groups[i].standings[j].id : j \in DOMAIN tournament.groups[i].standings}]]

\* lines 486-598, the rosters of the Category: one call, with the clock at now.
\* api[t] is how the roster request (and the cache write after it) ends for team t.
CollectTournamentData ==
    /\ col = ColIdle
    /\ \E tournament \in CollectInputs, refresh_rosters \in BOOLEAN,
          is_current_season \in BOOLEAN :
        LET our_team_ids == {tournament.our_teams[i].id : i \in DOMAIN tournament.our_teams}
            collected_groups == CollectedGroups(tournament, our_team_ids)
            all_team_ids_in_groups ==
                UNION {{collected_groups[i].standings[j].id :
                           j \in DOMAIN collected_groups[i].standings} :
                       i \in DOMAIN collected_groups}
            loaded == LoadAllRosterCaches(rosterFiles, all_team_ids_in_groups)
            cached == loaded.rosters
            missing == loaded.missing
            our_to_fetch == OurToFetch(rosterFiles, our_team_ids, all_team_ids_in_groups,
                                       is_current_season, now)
            fetched == IF refresh_rosters THEN all_team_ids_in_groups ELSE our_to_fetch
        IN  \E api \in [fetched -> RosterOutcomes] :
               /\ rosterFiles' = [t \in TeamIds |->
                                    IF t \in fetched /\ Succeeded(api, t)
                                    THEN SaveRosterCache(rosterFiles, t, FreshRoster, now)[t]
                                    ELSE rosterFiles[t]]
               /\ col' = [mode |-> IF refresh_rosters THEN "refresh" ELSE "normal",
                          is_current_season |-> is_current_season,
                          tournament_id |-> tournament.id,
                          our_team_ids |-> our_team_ids,
                          all_team_ids_in_groups |-> all_team_ids_in_groups,
                          files_before |-> rosterFiles,
                          time |-> now,
                          cached |-> cached,
                          fetched |-> fetched,
                          fetch_failed |-> {t \in fetched : api[t].fetch = "error"},
                          saves |-> {t \in fetched : api[t].fetch = "ok"},
                          write_failed |-> {t \in fetched : api[t].fetch = "ok"
                                                            /\ api[t].write = "oserror"},
                          groups |-> collected_groups,
                          rosters |->
                            IF refresh_rosters
                            THEN [t \in all_team_ids_in_groups |->
                                     IF Succeeded(api, t) THEN FreshRoster
                                     ELSE RefreshFailedRoster(t)]
                            ELSE [t \in DOMAIN cached \cup our_to_fetch \cup missing |->
                                     IF t \in our_to_fetch
                                     THEN IF Succeeded(api, t) THEN FreshRoster
                                          ELSE FallbackRoster(cached, t)
                                     ELSE IF t \in DOMAIN cached THEN cached[t] ELSE <<>>],
                          returned |-> TRUE]
    /\ UNCHANGED <<now, mainVars, rtVars, fnVars>>

\* The caller takes the Category; the frame is gone.
ReturnCategory ==
    /\ col # ColIdle
    /\ col' = ColIdle
    /\ UNCHANGED <<rosterFiles, now, mainVars, rtVars, fnVars>>

\* Time passes between two calls.
Tick ==
    /\ col = ColIdle
    /\ \E t \in ClockValues : t > now /\ now' = t
    /\ UNCHANGED <<rosterFiles, col, mainVars, rtVars, fnVars>>

\* Roster caches left by earlier builds, written at time 0.
InitCollect ==
    /\ MainIdle
    /\ rosterFiles \in [TeamIds -> {None, Some([mtime |-> 0, roster |-> OldRoster])}]
    /\ now = 0
    /\ col = ColIdle
    /\ rt = RtIdle
    /\ fn = FnIdle

NextCollect ==
    \/ CollectTournamentData
    \/ ReturnCategory
    \/ Tick

SpecCollect == InitCollect /\ [][NextCollect]_vars

-----------------------------------------------------------------------------
(* Cache round trip: a Category written to a cache file and loaded back *)

MaxGroups == 2

RtTeams == <<"a", "b", "c">>

\* The Categories of the round trip: any set of club teams, up to MaxGroups
\* groups, each with any subset of the club's teams.
RtCategory(our, group_sets) ==
    [tournament_id |-> "t1",
     tournament_name |-> NameOf("t1"),
     our_teams |-> LET mine == SelectSeq(RtTeams, LAMBDA t : t \in our)
                   IN  [i \in DOMAIN mine |-> [id |-> mine[i], name |-> "CLUB", avatar |-> ""]],
     our_team_ids |-> our,
     groups |-> [i \in DOMAIN group_sets |->
                    [id |-> i, name |-> "Grup",
                     standings |-> <<[id |-> "a", position |-> 1], [id |-> "z", position |-> 2]>>,
                     our_team_ids |-> group_sets[i]]],
     matches |-> MatchesOf("t1"),
     team_names |-> [t \in our \cup {"z"} |-> "NAME"],
     rosters |-> [t \in our \cup {"z"} |-> IF t = "z" THEN <<>> ELSE <<"player">>]]

RtCategories ==
    UNION {{RtCategory(our, gs) : gs \in UNION {[1..n -> SUBSET our] : n \in 0..MaxGroups}} :
           our \in SUBSET Range(RtTeams)}

RtState(stage, kind, cat, file, loaded) ==
    [stage |-> stage, kind |-> kind, cat |-> cat, file |-> file, loaded |-> loaded]

\* save_tournament_cache(tournament_id, cat)
RtSaveTournamentCache ==
    /\ rt.stage = "memory"
    /\ \E c \in SerializedForms(rt.cat) :
          rt' = RtState("file", "tournament", rt.cat, Some(c), None)
    /\ UNCHANGED <<mainVars, colVars, fnVars>>

\* load_tournament_cache(tournament_id)
RtLoadTournamentCache ==
    /\ rt.stage = "file"
    /\ rt.kind = "tournament"
    /\ rt' = RtState("loaded", rt.kind, rt.cat, rt.file,
                     LoadTournamentCache(rt.cat.tournament_id :> rt.file, rt.cat.tournament_id))
    /\ UNCHANGED <<mainVars, colVars, fnVars>>

\* save_season_cache(season_id, season_label, [cat])
RtSaveSeasonCache ==
    /\ rt.stage = "memory"
    /\ \E payload \in SeasonPayloads("s1", InferSeasonInfo(<<rt.cat>>).label, <<rt.cat>>) :
          rt' = RtState("file", "season", rt.cat, Some(payload), None)
    /\ UNCHANGED <<mainVars, colVars, fnVars>>

\* load_season_cache(season_id), and the Category in it
RtLoadSeasonCache ==
    /\ rt.stage = "file"
    /\ rt.kind = "season"
    /\ rt' = RtState("loaded", rt.kind, rt.cat, rt.file,
                     Some(Val(LoadSeasonCache("s1" :> rt.file, "s1")).tournaments[1]))
    /\ UNCHANGED <<mainVars, colVars, fnVars>>

InitRT ==
    /\ MainIdle
    /\ rosterFiles = <<>>
    /\ now = 0
    /\ col = ColIdle
    /\ rt \in {RtState("memory", "none", c, None, None) : c \in RtCategories}
    /\ fn = FnIdle

NextRT ==
    \/ RtSaveTournamentCache
    \/ RtLoadTournamentCache
    \/ RtSaveSeasonCache
    \/ RtLoadSeasonCache

SpecRT == InitRT /\ [][NextRT]_vars

-----------------------------------------------------------------------------
(* The functions of discovery, assembly and collection applied on their own:    *)
(* each action draws the arguments of one function, applies it and keeps the    *)
(* arguments and the result in fn; FnReturn forgets them.                       *)

\* The longest "included" list a manager response is drawn with.
MaxIncluded == 4

FnTournamentIds == <<"t1", "t2", "t3", "t4", "t5", "t6">>

\* What one entry of the manager response can be, apart from its id: a tournament
\* of any status with or without a season relationship, or an entry of another type.
IncludedKinds ==
    {[type |-> "tournament", status |-> st, season |-> se] :
        st \in ApiStatuses, se \in {None, Some("s1"), Some("s2")}}
    \cup {[type |-> "team", status |-> "in_progress", season |-> Some("s1")]}

\* The "included" list whose entries are of these kinds.
ManagerResponseOf(kinds) ==
    [i \in DOMAIN kinds |->
        [type |-> kinds[i].type, id |-> FnTournamentIds[i],
         name |-> [text |-> "CADET", year |-> None],
         status |-> kinds[i].status, order |-> None,
         season |-> kinds[i].season]]

\* lines 1488-1506: discover_seasons on a manager response, then the merge step.
FnDiscoverAndMerge ==
    /\ fn = FnIdle
    /\ \E n \in 0..MaxIncluded :
          \E kinds \in [1..n -> IncludedKinds] :
             LET included == ManagerResponseOf(kinds)
             IN  fn' = [op |-> "discover_seasons",
                        included |-> included,
                        seasons |-> DiscoverSeasons(included),
                        merged |-> MergeCurrentSeasons(DiscoverSeasons(included))]
    /\ UNCHANGED <<mainVars, colVars, rtVars>>

\* The longest batch discover_club_tournaments is applied to.
MaxTournaments == 3

\* The upstream order attribute of a tournament: missing, or a number.
TournamentOrders == {None, Some(0), Some(1), Some(2), Some(1000)}

\* The answers of the teams request: a failure; teams of other clubs or of no
\* club; an entry of the club that is no team; two teams of the club.
TeamsAnswers ==
    {TeamsError,
     TeamsOk(<<TeamEntry("team", "x", "RIVAL", Some(OtherClubId)),
               TeamEntry("team", "y", "FREE", None)>>),
     TeamsOk(<<TeamEntry("facility", "p", "POOL", Some(ClubId)),
               TeamEntry("team", "x", "RIVAL", Some(OtherClubId))>>),
     TeamsOk(<<TeamEntry("team", "a", "CLUB A", Some(ClubId)),
               TeamEntry("team", "x", "RIVAL", Some(OtherClubId)),
               TeamEntry("team", "b", "CLUB B", Some(ClubId))>>)}

\* The batch whose tournaments have these order attributes.
TournamentBatch(orders) ==
    [i \in DOMAIN orders |->
        [id |-> FnTournamentIds[i], name |-> [text |-> "CADET", year |-> None],
         order |-> orders[i], season_id |-> "s1", api_status |-> "finished"]]

\* lines 336-361: discover_club_tournaments on a batch, with the answers of its
\* teams requests.
FnDiscoverClubTournaments ==
    /\ fn = FnIdle
    /\ \E n \in 0..MaxTournaments :
          \E orders \in [1..n -> TournamentOrders] :
             \E answers \in [1..n -> TeamsAnswers] :
                LET tournaments == TournamentBatch(orders)
                    teams_api == [id \in {FnTournamentIds[i] : i \in 1..n} |->
                                     answers[CHOOSE i \in 1..n : FnTournamentIds[i] = id]]
                IN  fn' = [op |-> "discover_club_tournaments",
                           tournaments |-> tournaments,
                           club_id |-> ClubId,
                           teams_api |-> teams_api,
                           result |-> DiscoverClubTournaments(tournaments, ClubId, teams_api)]
    /\ UNCHANGED <<mainVars, colVars, rtVars>>

\* The most season records the dedup step is applied to.
MaxSeasons == 3

FnSeasonIds == <<"s1", "s2", "s3", "s4", "s5">>

\* The labels the assembled seasons are drawn with.
FnLabels == {SeasonLabel(y) : y \in {1999, 2024, 2025}}

\* all_season_data at line 1613: season ids are distinct, at most one season is
\* current (the merge step leaves one current id at most), no season is without
\* categories (line 1586); sizes[i] is the number of categories of season i.
AssembledSeasons(labels, cur, sizes) ==
    [i \in DOMAIN labels |->
        [sid |-> FnSeasonIds[i],
         label |-> labels[i],
         status |-> IF i = cur THEN "current" ELSE "finished",
         categories_data |-> [c \in 1..sizes[i] |-> [tournament_id |-> <<i, c>>]]]]

\* lines 1613-1646: the label-collision dedup and the final order.
FnDedupAndOrder ==
    /\ fn = FnIdle
    /\ \E n \in 1..MaxSeasons :
          \E labels \in [1..n -> FnLabels], cur \in 0..n, sizes \in [1..n -> 1..2] :
             LET data == AssembledSeasons(labels, cur, sizes)
             IN  fn' = [op |-> "dedup",
                        all_season_data |-> data,
                        deduped |-> DedupSeasons(data),
                        again |-> DedupSeasons(DedupSeasons(data)),
                        ordered |-> FinalOrder(DedupSeasons(data))]
    /\ UNCHANGED <<mainVars, colVars, rtVars>>

\* The most matches the categories handed to infer_season_info hold together.
MaxMatches == 3

\* Match dates: null, a text without the time of day, and texts in June, in
\* September and in the last December of a century.
FnDates ==
    {None, Some(<<2024, 9, 1>>), DateText(2024, 6, 15), DateText(2024, 9, 1),
     DateText(2099, 12, 1)}

\* Tournament names: "U16", "A 2023/24" and "202/2021-22".
FnNames ==
    {<<"U", "1", "6">>,
     <<"A", " ", "2", "0", "2", "3", "/", "2", "4">>,
     <<"2", "0", "2", "/", "2", "0", "2", "1", "-", "2", "2">>}

\* infer_season_info applied to two categories that hold these matches between them.
FnInferSeasonInfo ==
    /\ fn = FnIdle
    /\ \E n \in 0..MaxMatches :
          \E dates \in [1..n -> FnDates], cut \in 0..n, names \in [1..2 -> FnNames] :
             LET matches == [i \in 1..n |-> [id |-> i, date |-> dates[i]]]
                 cats == <<[tournament_name |-> names[1],
                            matches |-> SubSeq(matches, 1, cut)],
                           [tournament_name |-> names[2],
                            matches |-> SubSeq(matches, cut + 1, n)]>>
             IN  fn' = [op |-> "infer_season_info",
                        categories_data |-> cats,
                        result |-> InferSeasonInfo(cats)]
    /\ UNCHANGED <<mainVars, colVars, rtVars>>

\* The most matches the rounds of a tournament hold together.
MaxCollected == 4

\* The dates of the matches the rounds endpoint answers with.
FnMatchDates == {None, DateText(2024, 9, 1), DateText(2024, 10, 5), DateText(2025, 3, 8)}

\* collect_tournament_data's matches, for a tournament of two groups, the first
\* with two rounds and the second with one.
FnCollectMatches ==
    /\ fn = FnIdle
    /\ \E n \in 0..MaxCollected :
          \E dates \in [1..n -> FnMatchDates], c1 \in 0..n :
             \E c2 \in c1..n :
                LET upstream == [i \in 1..n |-> [id |-> i, date |-> dates[i]]]
                    groups == <<<<SubSeq(upstream, 1, c1), SubSeq(upstream, c1 + 1, c2)>>,
                                <<SubSeq(upstream, c2 + 1, n)>>>>
                IN  fn' = [op |-> "collect_matches",
                           groups |-> groups,
                           all_matches |-> AllMatches(groups),
                           matches |-> SortMatches(AllMatches(groups))]
    /\ UNCHANGED <<mainVars, colVars, rtVars>>

\* The most matches whose teams are named.
MaxNamed == 2

FnTeamIds == {"a", "b", "c"}
FnHomeTeams == {None, Some("a"), Some("b")}
FnAwayTeams == {None, Some("b"), Some("c")}

\* The team names collect_tournament_data builds for a tournament in which the
\* club has team "a".
FnTeamNames ==
    /\ fn = FnIdle
    /\ \E n \in 0..MaxNamed :
          \E home \in [1..n -> FnHomeTeams], away \in [1..n -> FnAwayTeams],
             standing_ids \in SUBSET FnTeamIds :
             LET all_matches == [i \in 1..n |-> [id |-> i, home_team |-> home[i],
                                                 away_team |-> away[i]]]
                 missing_ids == MissingIds(all_matches,
                                           [t \in standing_ids |-> StandingsName(t)])
             IN  \E lookup \in [missing_ids -> {"ok", "error"}] :
                    fn' = [op |-> "team_names",
                           standing_ids |-> standing_ids,
                           all_matches |-> all_matches,
                           our_team_ids |-> {"a"},
                           lookup |-> lookup,
                           team_names |-> TeamNames(standing_ids, all_matches, {"a"}, lookup)]
    /\ UNCHANGED <<mainVars, colVars, rtVars>>

\* The most results a match of the outcome check carries.
MaxResults == 2

\* Scores: 3, 5 and a JSON null.
FnValues == {None, Some(3), Some(5)}

\* match_result_class applied to a match between the club's team "a" and team
\* "b", whose results name "a", "b" or a third team.
FnMatchResultClass ==
    /\ fn = FnIdle
    /\ \E n \in 0..MaxResults :
          \E teams \in [1..n -> FnTeamIds], values \in [1..n -> FnValues],
             finished \in BOOLEAN, home \in {"a", "b"} :
             LET match == [id |-> "m1", finished |-> finished,
                           home_team |-> Some(home),
                           away_team |-> Some(IF home = "a" THEN "b" ELSE "a"),
                           results |-> [i \in 1..n |-> [team_id |-> teams[i],
                                                        value |-> values[i]]]]
             IN  fn' = [op |-> "match_result_class",
                        match |-> match,
                        our_team_ids |-> {"a"},
                        score |-> MatchScore(match),
                        result |-> MatchResultClass(match, {"a"})]
    /\ UNCHANGED <<mainVars, colVars, rtVars>>

\* The most matches a team entry holds.
MaxEntryMatches == 2

\* The results a match of a team entry carries: none, the home side's only, 5-3,
\* 3-5 and 3-3 (home first).
FnResultLists ==
    {<<>>,
     <<[team_id |-> "home", value |-> Some(5)]>>,
     <<[team_id |-> "home", value |-> Some(5)], [team_id |-> "away", value |-> Some(3)]>>,
     <<[team_id |-> "home", value |-> Some(3)], [team_id |-> "away", value |-> Some(5)]>>,
     <<[team_id |-> "home", value |-> Some(3)], [team_id |-> "away", value |-> Some(3)]>>}

\* The record generate_html computes for the entry of the club's team "a".
FnTeamRecord ==
    /\ fn = FnIdle
    /\ \E n \in 0..MaxEntryMatches :
          \E finished \in [1..n -> BOOLEAN], home \in [1..n -> {"a", "b"}],
             results \in [1..n -> FnResultLists] :
             LET away(i) == IF home[i] = "a" THEN "b" ELSE "a"
                 matches == [i \in 1..n |->
                               [id |-> i, finished |-> finished[i],
                                home_team |-> Some(home[i]),
                                away_team |-> Some(away(i)),
                                results |-> [j \in DOMAIN results[i] |->
                                               [team_id |-> IF results[i][j].team_id = "home"
                                                            THEN home[i] ELSE away(i),
                                                value |-> results[i][j].value]]]]
             IN  fn' = [op |-> "team_record",
                        matches |-> matches,
                        team_ids |-> {"a"},
                        record |-> TeamRecord(matches, {"a"})]
    /\ UNCHANGED <<mainVars, colVars, rtVars>>

\* The most items of the included list of a round.
MaxRoundItems == 3

\* The items a round's answer is made of: two results of match m1, match m1 that
\* references both, match m2 that references a result the answer does not hold,
\* and a facility.
RoundItems ==
    {[type |-> "result", id |-> "r1", value |-> 5, team_id |-> "a", match_id |-> "m1"],
     [type |-> "result", id |-> "r2", value |-> 3, team_id |-> "b", match_id |-> "m1"],
     [type |-> "match", id |-> "m1", results |-> <<"r1", "r2">>],
     [type |-> "match", id |-> "m2", results |-> <<"r3">>],
     [type |-> "facility", id |-> "f1"]}

\* get_round_matches applied to an answer that lists some of the items, each
\* once, in some order.
FnGetRoundMatches ==
    /\ fn = FnIdle
    /\ \E n \in 0..MaxRoundItems :
          \E included \in [1..n -> RoundItems] :
             /\ \A i, j \in 1..n : included[i] = included[j] => i = j
             /\ fn' = [op |-> "get_round_matches",
                       included |-> included,
                       matches |-> GetRoundMatches(included)]
    /\ UNCHANGED <<mainVars, colVars, rtVars>>

FnReturn ==
    /\ fn # FnIdle
    /\ fn' = FnIdle
    /\ UNCHANGED <<mainVars, colVars, rtVars>>

InitFn ==
    /\ MainIdle
    /\ rosterFiles = <<>>
    /\ now = 0
    /\ col = ColIdle
    /\ rt = RtIdle
    /\ fn = FnIdle

NextFn ==
    \/ FnDiscoverAndMerge
    \/ FnDiscoverClubTournaments
    \/ FnDedupAndOrder
    \/ FnInferSeasonInfo
    \/ FnCollectMatches
    \/ FnTeamNames
    \/ FnMatchResultClass
    \/ FnTeamRecord
    \/ FnGetRoundMatches
    \/ FnReturn

SpecFn == InitFn /\ [][NextFn]_vars

-----------------------------------------------------------------------------
(* Properties of main(), checked under Spec *)

Last(s) == s[Len(s)]

\* The operations a step adds to the log of the run.
NewCalls == SubSeq(calls', Len(calls) + 1, Len(calls'))

\* The tournaments of the run, as discovery reported them.
TournamentsInRun == UNION {Range(seasons_raw[i].tournaments) : i \in DOMAIN seasons_raw}

FinishedTournament(id) == \E t \in TournamentsInRun : t.id = id /\ t.api_status = "finished"

\* Season sid is in the run and has no in_progress tournament.
FinishedInRun(sid) ==
    \E i \in DOMAIN seasons_raw : seasons_raw[i].sid = sid /\ ~seasons_raw[i].has_in_progress

\* The loop of main is at a season.
AtSeason == pc = "loop" /\ idx <= Len(seasons_raw)

\* The loop of main is at a finished season whose season cache file exists.
AtCachedFinishedSeason ==
    /\ AtSeason
    /\ ~seasons_raw[idx].has_in_progress
    /\ ~IsNone(seasonFiles[seasons_raw[idx].sid])

(* C1: save_season_cache is invoked for a season id only in a run where that
   season is finished (no in_progress tournament); a season id flagged current
   in a run, merged ids included, gets no season cache file written in that run. *)
C1_SaveCallsAreForFinished ==
    \A i \in DOMAIN calls :
        calls[i].op = "save_season_cache" => calls[i].id \notin flaggedCurrent

C1_FileWrittenOnlyIfFinished ==
    \A s \in SeasonIds :
        seasonFiles'[s] # seasonFiles[s] => (s \notin flaggedCurrent /\ FinishedInRun(s))

C1_NoCurrentSeasonCached ==
    []C1_SaveCallsAreForFinished /\ [][C1_FileWrittenOnlyIfFinished]_vars

\* A run with a current season has written the season cache of a finished one.
C1_Witness ==
    /\ flaggedCurrent # {}
    /\ \E i \in DOMAIN calls : calls[i].op = "save_season_cache" /\ calls[i].res = "ok"

(* C2: when the loop reaches a finished season whose season cache file exists,
   the step only loads the season cache (no discover_club_tournaments, no
   collect_tournament_data, no tournament cache load) and assembles a record
   with status finished, the cached label and the cached categories; and every
   Discovery/Collector call made for a tournament of a finished season is made
   while that season has no season cache file. *)
C2_CachedSeasonStep ==
    AtCachedFinishedSeason =>
        LET sid == seasons_raw[idx].sid
            file == Val(seasonFiles[sid])
            rec == Last(all_season_data')
        IN  /\ NewCalls = <<Call("load_season_cache", sid, "ok")>>
            /\ Len(all_season_data') = Len(all_season_data) + 1
            /\ rec.sid = sid
            /\ rec.status = "finished"
            /\ rec.label = file.season_label
            /\ Len(rec.categories_data) = Len(file.tournaments)
            /\ \A i \in DOMAIN file.tournaments :
                  /\ rec.categories_data[i].tournament_id = file.tournaments[i].tournament_id
                  /\ rec.categories_data[i].our_team_ids = Range(file.tournaments[i].our_team_ids)
                  /\ rec.categories_data[i].matches = file.tournaments[i].matches

C2_FetchOnlyWithoutCache ==
    \A i \in DOMAIN NewCalls :
        NewCalls[i].op \in {"discover", "collect", "load_tournament_cache"} =>
            \A j \in DOMAIN seasons_raw :
                (/\ ~seasons_raw[j].has_in_progress
                 /\ \E t \in Range(seasons_raw[j].tournaments) : t.id = NewCalls[i].id)
                => IsNone(seasonFiles[seasons_raw[j].sid])

C2_CachedSeasonNotFetched ==
    [][C2_CachedSeasonStep /\ C2_FetchOnlyWithoutCache]_vars

\* A finished season has just been assembled from its season cache.
C2_Witness ==
    /\ pc = "loop"
    /\ calls # <<>>
    /\ Last(calls).op = "load_season_cache"
    /\ all_season_data # <<>>
    /\ Last(all_season_data).sid = Last(calls).id
    /\ Last(all_season_data).categories_data # <<>>

(* C3: over the runs so far, a season that every run reported as finished has
   had Discovery/Collector calls for its tournaments in at most one run. *)
C3_FinishedSeasonFetchedOnce ==
    \A s \in SeasonIds : s \notin notAlwaysFinished => apiRuns[s] <= 1

(* C4: cleanup_tournament_caches runs only right after a successful
   save_season_cache, a successful save_season_cache is followed by it at once,
   and when it has run no tournament cache file is left in the directory. *)
C4_CleanupFollowsSave ==
    /\ \A i \in DOMAIN calls :
          calls[i].op = "cleanup_tournament_caches" =>
              (i > 1 /\ calls[i - 1].op = "save_season_cache" /\ calls[i - 1].res = "ok")
    /\ \A i \in DOMAIN calls :
          (calls[i].op = "save_season_cache" /\ calls[i].res = "ok") =>
              IF i < Len(calls) THEN calls[i + 1].op = "cleanup_tournament_caches"
              ELSE pc = "cleanup"
    /\ (calls # <<>> /\ Last(calls).op = "cleanup_tournament_caches") =>
          \A t \in TournamentIds : IsNone(tFiles[t])

\* The cleanup has just removed a tournament cache written earlier in the run.
C4_Witness ==
    /\ calls # <<>>
    /\ Last(calls).op = "cleanup_tournament_caches"
    /\ \E i \in DOMAIN calls : calls[i].op = "save_tournament_cache" /\ calls[i].res = "ok"

(* C5: the tournament cache is loaded and saved only for tournaments whose own
   status is finished; a finished tournament whose tournament cache exists is
   taken from it with no Discovery/Collector call; every other tournament of a
   season that is not taken from the season cache goes through discovery, and
   the Collector runs only on discovered tournaments; each finished tournament
   collected with at least one group is handed to save_tournament_cache, whose
   successful write holds that Category. *)
C5_CacheOnlyForFinished ==
    pc # "idle" =>
        /\ \A i \in DOMAIN calls :
              calls[i].op \in {"load_tournament_cache", "save_tournament_cache"} =>
                  FinishedTournament(calls[i].id)
        /\ \A i \in DOMAIN calls :
              calls[i].op = "collect" =>
                  \E j \in 1..(i - 1) : calls[j] = Call("discover", calls[i].id, "club")
        /\ \A i \in DOMAIN calls :
              (calls[i] = Call("collect", calls[i].id, "groups") /\ FinishedTournament(calls[i].id))
              => (i < Len(calls) /\ calls[i + 1].op = "save_tournament_cache"
                                 /\ calls[i + 1].id = calls[i].id)

C5_SplitStep ==
    (AtSeason /\ ~AtCachedFinishedSeason) =>
        \A t \in Range(seasons_raw[idx].tournaments) :
            IF t.api_status = "finished" /\ ~IsNone(tFiles[t.id])
            THEN /\ \A i \in DOMAIN NewCalls :
                        NewCalls[i].id = t.id => NewCalls[i].op = "load_tournament_cache"
                 /\ \E i \in DOMAIN categories_data' :
                        /\ categories_data'[i].tournament_id = t.id
                        /\ categories_data'[i].our_team_ids = Range(Val(tFiles[t.id]).our_team_ids)
                 /\ \A i \in DOMAIN tournaments_with_us' : tournaments_with_us'[i].id # t.id
            ELSE \E i \in DOMAIN NewCalls :
                    NewCalls[i].op = "discover" /\ NewCalls[i].id = t.id

C5_SaveStep ==
    \A i \in DOMAIN NewCalls :
        NewCalls[i] = Call("save_tournament_cache", NewCalls[i].id, "ok") =>
            /\ ~IsNone(tFiles'[NewCalls[i].id])
            /\ Val(tFiles'[NewCalls[i].id]).tournament_id = NewCalls[i].id
            /\ Range(Val(tFiles'[NewCalls[i].id]).our_team_ids) = Last(categories_data').our_team_ids

C5_TournamentCacheForFinishedOnly ==
    []C5_CacheOnlyForFinished /\ [][C5_SplitStep /\ C5_SaveStep]_vars

\* A season is being fetched with one tournament taken from the tournament
\* cache and another one going through the Collector.
C5_Witness ==
    /\ pc = "collect"
    /\ k = 1
    /\ categories_data # <<>>
    /\ tournaments_with_us # <<>>

(* C6: a cache write that raises an I/O error ends the run: it is the last
   operation of the run, which ends by that error and renders nothing. *)
C6_WriteFailureIsFatal ==
    \A i \in DOMAIN calls :
        calls[i].res = "oserror" =>
            (i = Len(calls) /\ pc = "idle" /\ outcome.status = "oserror")

\* The ids of the tournaments of a list of categories.
CategoryIds(cats) == {cats[i].tournament_id : i \in DOMAIN cats}

\* The ids of the tournaments the season cache file of sid holds.
SeasonFileIds(sid) ==
    IF IsNone(LoadSeasonCache(seasonFiles, sid)) THEN {}
    ELSE CategoryIds(Val(LoadSeasonCache(seasonFiles, sid)).tournaments)

\* The ids of the collections of the run that ended this way.
CollectedAs(res) == {calls[i].id : i \in {i \in DOMAIN calls : calls[i] = Call("collect", calls[i].id, res)}}

C22_DropStep ==
    \A i \in DOMAIN NewCalls :
        NewCalls[i] = Call("collect", NewCalls[i].id, "no_groups") =>
            /\ categories_data' = categories_data
            /\ tFiles' = tFiles
            /\ \A j \in DOMAIN NewCalls : NewCalls[j].op # "save_tournament_cache"

C22_DroppedNowhere ==
    \A id \in CollectedAs("no_groups") :
        /\ id \notin CategoryIds(categories_data)
        /\ \A i \in DOMAIN all_season_data : id \notin CategoryIds(all_season_data[i].categories_data)
        /\ \A i \in DOMAIN outcome.seasons : id \notin CategoryIds(outcome.seasons[i].categories_data)
        /\ \A i \in DOMAIN calls :
              calls[i] = Call("save_season_cache", calls[i].id, "ok") =>
                 id \notin SeasonFileIds(calls[i].id)

(* C22: a tournament whose collection returns no groups is not added to the
   categories of its season, is not written to the tournament cache, and is in no
   season record and in no season cache file written in that run. *)
C22_NoGroupsTournamentDropped == [][C22_DropStep]_vars /\ []C22_DroppedNowhere

\* A finished season was written to its cache in a run in which one of its
\* tournaments had no groups.
C22_Witness ==
    /\ \E id \in CollectedAs("no_groups") :
          /\ \E i \in DOMAIN calls : calls[i] = Call("save_season_cache", SeasonOf(id), "ok")
          /\ SeasonFileIds(SeasonOf(id)) # {}
          /\ IsNone(tFiles[id])
    /\ outcome.status = "rendered"

C23_RaiseStep ==
    \A i \in DOMAIN NewCalls :
        NewCalls[i] = Call("collect", NewCalls[i].id, "raise") =>
            /\ categories_data' = categories_data
            /\ all_season_data' = all_season_data
            /\ tFiles' = tFiles /\ seasonFiles' = seasonFiles
            /\ pc' = "collect" /\ k' = k + 1 /\ idx' = idx
            /\ tournaments_with_us' = tournaments_with_us
            /\ outcome' = outcome /\ outcome.status = "running"

\* Every tournament found to have a team of the club, in the seasons the loop has
\* left behind and before k in the season it is at, was handed to
\* collect_tournament_data; those that returned groups are in a season record.
C23_AllCollected ==
    /\ \A i \in DOMAIN seasons_raw :
          i < idx =>
             \A t \in Range(seasons_raw[i].tournaments) :
                /\ (\E c \in DOMAIN calls : calls[c] = Call("discover", t.id, "club"))
                      => (\E c \in DOMAIN calls : calls[c].op = "collect" /\ calls[c].id = t.id)
                /\ t.id \in CollectedAs("groups")
                      => \E d \in DOMAIN all_season_data :
                            t.id \in CategoryIds(all_season_data[d].categories_data)
    /\ pc = "collect" =>
          /\ \A j \in 1..(k - 1) :
                \E c \in DOMAIN calls :
                   calls[c].op = "collect" /\ calls[c].id = tournaments_with_us[j].id
          /\ CollectedAs("groups") \cap {tournaments_with_us[j].id : j \in 1..(k - 1)}
                \subseteq CategoryIds(categories_data)
    /\ CollectedAs("raise") \cap CategoryIds(categories_data) = {}
    /\ \A d \in DOMAIN all_season_data :
          CollectedAs("raise") \cap CategoryIds(all_season_data[d].categories_data) = {}
    /\ outcome.status = "rendered" =>
          CollectedAs("groups") \subseteq
             UNION {CategoryIds(outcome.seasons[d].categories_data) : d \in DOMAIN outcome.seasons}

(* C23: when collect_tournament_data raises for a tournament, the tournament
   contributes no category, the run stays in the collection loop at the next
   tournament, every other tournament with a team of the club in that season and
   in the later seasons is still collected and assembled, and the run does not
   end by that exception. *)
C23_CollectionFailureSkipped == [][C23_RaiseStep]_vars /\ []C23_AllCollected

\* The first tournament of the first season raised; the other tournament of the
\* season and the tournament of the later season were collected and rendered.
C23_Witness ==
    /\ outcome.status = "rendered"
    /\ Len(outcome.seasons) = 2
    /\ \E i, j, l \in DOMAIN calls :
          /\ i < j /\ j < l
          /\ calls[i].op = "collect" /\ calls[i].res = "raise"
          /\ calls[j].op = "collect" /\ calls[j].res = "groups"
          /\ SeasonOf(calls[j].id) = SeasonOf(calls[i].id)
          /\ calls[l].op = "collect" /\ calls[l].res = "groups"
          /\ SeasonOf(calls[l].id) # SeasonOf(calls[i].id)

C24_ExitStep ==
    (pc = "loop" /\ idx > Len(seasons_raw) /\ pc' = "idle") =>
        IF all_season_data = <<>>
        THEN outcome' = [status |-> "exit1", seasons |-> <<>>]
        ELSE outcome'.status = "rendered" /\ outcome'.seasons # <<>>

C24_NothingRenderedFromNothing ==
    /\ outcome.status = "rendered" => outcome.seasons # <<>>
    /\ outcome.status = "exit1" => (all_season_data = <<>> /\ outcome.seasons = <<>>)

(* C24: when the season loop ends without a season record, the run ends by
   sys.exit(1) and nothing is deduplicated, ordered or handed to the renderer;
   a run that renders has at least one season record. *)
C24_NoSeasonDataExits == [][C24_ExitStep]_vars /\ []C24_NothingRenderedFromNothing

\* A run that discovered a season and made requests for it ended by sys.exit(1).
C24_Witness ==
    /\ outcome.status = "exit1"
    /\ seasons_raw # <<>>
    /\ \E i \in DOMAIN calls : calls[i].op = "collect"

\* Tournament t is, in this run, of a season that has a tournament in progress.
InCurrentSeason(t) ==
    \E i \in DOMAIN seasons_raw :
        /\ seasons_raw[i].has_in_progress
        /\ \E j \in DOMAIN seasons_raw[i].tournaments : seasons_raw[i].tournaments[j].id = t

\* The season record of the run that holds season id sid.
TournamentsOfSeason(sid) ==
    UNION {{seasons_raw[i].tournaments[j].id : j \in DOMAIN seasons_raw[i].tournaments} :
           i \in {i \in DOMAIN seasons_raw : seasons_raw[i].sid = sid}}

C26_KeptStep ==
    \A t \in TournamentIds :
        (~IsNone(tFiles[t]) /\ IsNone(tFiles'[t])) =>
            /\ pc = "cleanup"
            /\ t \in TournamentsOfSeason(seasons_raw[idx].sid)
            /\ ~InCurrentSeason(t)

(* C26: the tournament cache file of a finished tournament of a season that is
   still current stays on disk in every step, until that season itself is
   written to the season cache; the step that follows the writing of another
   season's cache does not delete it. *)
C26_TournamentCacheKeptWhileCurrent == [][C26_KeptStep]_vars

(* C27: save_season_cache is called for a season only in a run in which no teams
   request of discover_club_tournaments for a tournament of the season failed and
   no collection of a tournament of the season raised. *)
C27_SeasonCacheComplete ==
    \A i \in DOMAIN calls :
        calls[i].op = "save_season_cache" =>
            \A j \in DOMAIN calls :
                (calls[j].id \in TournamentsOfSeason(calls[i].id) /\ j < i) =>
                    /\ calls[j] # Call("discover", calls[j].id, "error")
                    /\ calls[j] # Call("collect", calls[j].id, "raise")

(* C29: of the seasons handed to the renderer at most one has the status
   current, whatever discovery answered and whatever the cache files hold. *)
C29_AtMostOneCurrentRendered ==
    /\ Cardinality({i \in DOMAIN outcome.seasons : outcome.seasons[i].status = "current"}) <= 1
    /\ pc # "idle" =>
          Cardinality({i \in DOMAIN seasons_raw : seasons_raw[i].has_in_progress}) <= 1

\* Discovery reported two season ids as current, a season cache file existed,
\* and the renderer got seasons of which exactly one is current.
C29_Witness ==
    /\ outcome.status = "rendered"
    /\ Cardinality(flaggedCurrent) = 2
    /\ \E sid \in SeasonIds : ~IsNone(seasonFiles[sid])
    /\ Cardinality({i \in DOMAIN outcome.seasons : outcome.seasons[i].status = "current"}) = 1

-----------------------------------------------------------------------------
(* Properties of collect_tournament_data, checked under SpecCollect *)

\* The age in seconds of team t's roster cache when the call was made.
AgeAtCall(t) == col.time - Val(col.files_before[t]).mtime

HadCache(t) == ~IsNone(col.files_before[t])

(* C7 as stated: in both roster modes a team whose get_team_roster call
   failed has the empty list as its roster, and the call returns. *)
C7_FailedFetchGivesEmptyRoster ==
    col # ColIdle =>
        /\ col.returned
        /\ \A t \in col.fetch_failed : t \in DOMAIN col.rosters /\ col.rosters[t] = <<>>

(* C7 amended: the call returns; a team whose get_team_roster call failed has
   the empty list as its roster in full-refresh mode, and in normal mode the
   roster loaded from its roster cache when the team is in some group's
   standings and has a cache file, the empty list otherwise. *)
C7_FailedFetchFallsBackToCache ==
    col # ColIdle =>
        /\ col.returned
        /\ \A t \in col.fetch_failed :
              /\ t \in DOMAIN col.rosters
              /\ col.rosters[t] =
                    IF col.mode = "normal" /\ t \in col.all_team_ids_in_groups /\ HadCache(t)
                    THEN Val(col.files_before[t]).roster
                    ELSE <<>>

\* In normal mode the refresh of a club team with a stale cache has failed.
C7_Witness ==
    /\ col # ColIdle
    /\ col.mode = "normal"
    /\ \E t \in col.fetch_failed : t \in col.all_team_ids_in_groups /\ HadCache(t)
    /\ \E t \in col.fetch_failed : ~HadCache(t)

(* C8: in normal mode with is_current_season true, get_team_roster is called
   for exactly the club teams whose roster cache is absent or more than 30 days
   old; with is_current_season false it is called for no team. *)
C8_RefreshSetIsMissingOrStale ==
    (col # ColIdle /\ col.mode = "normal") =>
        col.fetched =
            IF col.is_current_season
            THEN {t \in col.our_team_ids :
                     ~HadCache(t) \/ AgeAtCall(t) > RosterMaxAgeDays * SecondsPerDay}
            ELSE {}

\* One club team's cache is more than 30 days old and is refreshed, another
\* one's is younger and is not.
C8_Witness ==
    /\ col # ColIdle
    /\ col.mode = "normal"
    /\ col.is_current_season
    /\ \E t \in col.our_team_ids \cap col.fetched :
          HadCache(t) /\ AgeAtCall(t) > RosterMaxAgeDays * SecondsPerDay
    /\ \E t \in col.our_team_ids \ col.fetched : HadCache(t) /\ AgeAtCall(t) > 0

(* C9: with refresh_rosters false, get_team_roster is called and a roster
   cache written only for the club's own teams of the tournament; an opponent
   of the standings that has no roster cache has an empty roster in the result. *)
C9_OpponentsNotFetched ==
    (col # ColIdle /\ col.mode = "normal") =>
        /\ col.fetched \subseteq col.our_team_ids
        /\ col.saves \subseteq col.our_team_ids
        /\ \A t \in TeamIds \ col.our_team_ids : rosterFiles[t] = col.files_before[t]
        /\ \A t \in col.all_team_ids_in_groups \ col.our_team_ids :
              ~HadCache(t) => (t \in DOMAIN col.rosters /\ col.rosters[t] = <<>>)
        /\ \A t \in DOMAIN col.rosters \ col.our_team_ids :
              ~HadCache(t) => col.rosters[t] = <<>>

\* A normal-mode call that refreshed a club team and met an opponent without cache.
C9_Witness ==
    /\ col # ColIdle
    /\ col.mode = "normal"
    /\ col.fetched # {}
    /\ \E t \in col.all_team_ids_in_groups \ col.our_team_ids : ~HadCache(t)

-----------------------------------------------------------------------------
(* The cache round trip, checked under SpecRT *)

(* C10: a Category serialised, written to a tournament or season cache file and
   loaded back has the same members in our_team_ids and in every group's
   our_team_ids, and every other field equal to the original. *)
C10_RoundTrip ==
    rt.stage = "loaded" =>
        LET orig == rt.cat
            back == Val(rt.loaded)
        IN  /\ back.our_team_ids = orig.our_team_ids
            /\ Len(back.groups) = Len(orig.groups)
            /\ \A i \in DOMAIN orig.groups :
                  /\ back.groups[i].our_team_ids = orig.groups[i].our_team_ids
                  /\ back.groups[i].id = orig.groups[i].id
                  /\ back.groups[i].name = orig.groups[i].name
                  /\ back.groups[i].standings = orig.groups[i].standings
            /\ back.tournament_id = orig.tournament_id
            /\ back.tournament_name = orig.tournament_name
            /\ back.our_teams = orig.our_teams
            /\ back.matches = orig.matches
            /\ back.team_names = orig.team_names
            /\ back.rosters = orig.rosters

\* A Category with several club teams, written in another order than a, b, c,
\* with a group holding only some of them, has been loaded back.
C10_Witness ==
    /\ rt.stage = "loaded"
    /\ rt.kind = "tournament"
    /\ Cardinality(rt.cat.our_team_ids) >= 2
    /\ Val(rt.file).our_team_ids[1] # "a"
    /\ \E i \in DOMAIN rt.cat.groups :
          /\ rt.cat.groups[i].our_team_ids # {}
          /\ rt.cat.groups[i].our_team_ids # rt.cat.our_team_ids

-----------------------------------------------------------------------------
(* Properties of discovery, checked under SpecFn *)

\* The season ids of a sequence of season records, as a set.
SidsOf(seasons) == {seasons[i].sid : i \in DOMAIN seasons}

\* The ids of a sequence of tournaments, as a set.
IdSet(tournaments) == {tournaments[i].id : i \in DOMAIN tournaments}

\* The indices of the season records flagged current.
CurrentIn(seasons) == {i \in DOMAIN seasons : seasons[i].has_in_progress}

\* The number of tournaments of the seasons at the indices I.
RECURSIVE TournamentCount(_, _)
TournamentCount(seasons, I) ==
    IF I = {} THEN 0
    ELSE LET i == CHOOSE i \in I : TRUE
         IN  Len(seasons[i].tournaments) + TournamentCount(seasons, I \ {i})

\* s is t with some of its members left out, the others in t's order.
IsSubsequence(s, t) ==
    \E f \in [DOMAIN s -> DOMAIN t] :
        /\ \A i \in DOMAIN s : s[i] = t[f[i]]
        /\ \A i, j \in DOMAIN s : i < j => f[i] < f[j]

(* C11: when discover_seasons yields more than one current season id, after the
   merge exactly one of them is left, the one with the most tournaments and the
   first of these in discovery order; its tournaments are its own followed by
   those of the other current ids, none lost and none twice; the finished
   seasons are as they were and the order of the seasons is kept.  With at most
   one current season id the merge changes nothing. *)
C11_MergeIntoLargestCurrent ==
    fn.op = "discover_seasons" =>
        LET seasons == fn.seasons
            merged == fn.merged
            current == CurrentIn(seasons)
        IN  IF Cardinality(current) <= 1 THEN merged = seasons
            ELSE \E p \in current :
                    /\ \A j \in current :
                          /\ Len(seasons[p].tournaments) >= Len(seasons[j].tournaments)
                          /\ Len(seasons[p].tournaments) = Len(seasons[j].tournaments) => p <= j
                    /\ SidsOf(merged) = {seasons[i].sid : i \in (DOMAIN seasons \ current) \cup {p}}
                    /\ Len(merged) = Len(seasons) - Cardinality(current) + 1
                    /\ IsSubsequence([m \in DOMAIN merged |-> merged[m].sid],
                                     [i \in DOMAIN seasons |-> seasons[i].sid])
                    /\ \A m \in DOMAIN merged :
                          IF merged[m].sid = seasons[p].sid
                          THEN /\ merged[m].has_in_progress
                               /\ Len(merged[m].tournaments) = TournamentCount(seasons, current)
                               /\ SubSeq(merged[m].tournaments, 1, Len(seasons[p].tournaments))
                                     = seasons[p].tournaments
                               /\ IdSet(merged[m].tournaments)
                                     = UNION {IdSet(seasons[i].tournaments) : i \in current}
                               /\ \A i \in current :
                                     IsSubsequence(seasons[i].tournaments, merged[m].tournaments)
                          ELSE \E i \in DOMAIN seasons \ current : merged[m] = seasons[i]

\* Several season ids are current, the largest is not the first of them, and a
\* finished season stands before them.
C11_Witness ==
    /\ fn.op = "discover_seasons"
    /\ Cardinality(CurrentIn(fn.seasons)) >= 2
    /\ ~fn.seasons[1].has_in_progress
    /\ \E i, j \in CurrentIn(fn.seasons) :
          i < j /\ Len(fn.seasons[i].tournaments) < Len(fn.seasons[j].tournaments)
    /\ fn.merged # fn.seasons

\* The season id discover_seasons files an entry of the response under.
SeasonKeyOf(inc) == IF inc.season = None THEN "unknown" ELSE inc.season[1]

\* The entries of the response that are tournaments in progress or finished.
KeptEntries(included) ==
    {i \in DOMAIN included :
        included[i].type = "tournament" /\ included[i].status \in {"in_progress", "finished"}}

(* C12: discover_seasons returns exactly the tournaments of the response whose
   status is in_progress or finished, each once, under the season id of its
   season relationship ("unknown" without one) and in the order of the response;
   a season is flagged has_in_progress exactly when one of its tournaments has
   status in_progress. *)
C12_DiscoverSeasonsFiltersAndGroups ==
    fn.op = "discover_seasons" =>
        LET included == fn.included
            seasons == fn.seasons
            kept == KeptEntries(included)
        IN  /\ SidsOf(seasons) = {SeasonKeyOf(included[i]) : i \in kept}
            /\ Cardinality(SidsOf(seasons)) = Len(seasons)
            /\ \A n \in DOMAIN seasons :
                  LET mine == {i \in kept : SeasonKeyOf(included[i]) = seasons[n].sid}
                      ts == seasons[n].tournaments
                  IN  /\ Len(ts) = Cardinality(mine)
                      /\ IdSet(ts) = {included[i].id : i \in mine}
                      /\ \A j \in DOMAIN ts :
                            \E i \in mine :
                               /\ ts[j].id = included[i].id
                               /\ ts[j].name = included[i].name
                               /\ ts[j].order = included[i].order
                               /\ ts[j].api_status = included[i].status
                               /\ ts[j].season_id = seasons[n].sid
                      /\ IsSubsequence([j \in DOMAIN ts |-> ts[j].id],
                                       [i \in DOMAIN included |-> included[i].id])
                      /\ seasons[n].has_in_progress
                            <=> (\E i \in mine : included[i].status = "in_progress")

\* A response with a draft tournament, an entry that is no tournament, a tournament
\* without season relationship, a current season and a finished one.
C12_Witness ==
    /\ fn.op = "discover_seasons"
    /\ \E i \in DOMAIN fn.included :
          fn.included[i].type = "tournament" /\ fn.included[i].status = "draft"
    /\ \E i \in DOMAIN fn.included : fn.included[i].type # "tournament"
    /\ "unknown" \in SidsOf(fn.seasons)
    /\ \E n, m \in DOMAIN fn.seasons :
          fn.seasons[n].has_in_progress /\ ~fn.seasons[m].has_in_progress

\* The tournaments of the batch whose teams request succeeded and answered with
\* at least one team of the club.
WithClubTeam(tournaments, club_id, teams_api) ==
    {i \in DOMAIN tournaments :
        /\ teams_api[tournaments[i].id].status = "ok"
        /\ \E j \in DOMAIN teams_api[tournaments[i].id].included :
              LET inc == teams_api[tournaments[i].id].included[j]
              IN  inc.type = "team" /\ inc.club = <<club_id>>}

(* C13: discover_club_tournaments returns exactly the tournaments of the batch
   whose teams request succeeded and holds a team of club_id, each once, with
   its fields unchanged and with our_teams the non-empty list of the club's
   teams of the answer; a tournament without club team is left out, and a
   failed request leaves out that tournament only. *)
C13_ClubTournamentsExactly ==
    fn.op = "discover_club_tournaments" =>
        LET good == WithClubTeam(fn.tournaments, fn.club_id, fn.teams_api)
        IN  /\ IdSet(fn.result) = {fn.tournaments[i].id : i \in good}
            /\ Len(fn.result) = Cardinality(good)
            /\ \A r \in DOMAIN fn.result :
                  LET t == fn.result[r]
                      included == fn.teams_api[t.id].included
                      mine == {j \in DOMAIN included :
                                  included[j].type = "team" /\ included[j].club = <<fn.club_id>>}
                  IN  /\ t.our_teams # <<>>
                      /\ Len(t.our_teams) = Cardinality(mine)
                      /\ {t.our_teams[n].id : n \in DOMAIN t.our_teams}
                            = {included[j].id : j \in mine}
                      /\ \E i \in good :
                            /\ fn.tournaments[i].id = t.id
                            /\ fn.tournaments[i].name = t.name
                            /\ fn.tournaments[i].order = t.order
                            /\ fn.tournaments[i].season_id = t.season_id
                            /\ fn.tournaments[i].api_status = t.api_status

\* The request of the first tournament failed, the second has no team of the
\* club, and the third is returned.
C13_Witness ==
    /\ fn.op = "discover_club_tournaments"
    /\ Len(fn.tournaments) = 3
    /\ fn.teams_api[fn.tournaments[1].id].status = "error"
    /\ fn.teams_api[fn.tournaments[2].id].status = "ok"
    /\ 2 \notin WithClubTeam(fn.tournaments, fn.club_id, fn.teams_api)
    /\ IdSet(fn.result) = {fn.tournaments[3].id}

(* C14: the list discover_club_tournaments returns is in ascending order of the
   order attribute, and every tournament without order comes after every
   tournament that has one, whatever its value. *)
C14_AscendingOrderMissingLast ==
    fn.op = "discover_club_tournaments" =>
        \A i, j \in DOMAIN fn.result :
            i < j =>
               /\ (fn.result[i].order # None /\ fn.result[j].order # None)
                     => fn.result[i].order[1] <= fn.result[j].order[1]
               /\ fn.result[i].order = None => fn.result[j].order = None

-----------------------------------------------------------------------------
(* Properties of the dedup step and of the final order, checked under SpecFn *)

\* The indices of the records of data with this label.
WithLabel(data, label) == {i \in DOMAIN data : data[i].label = label}

LabelsDistinct(data) ==
    \A i, j \in DOMAIN data : data[i].label = data[j].label => i = j

\* The record of data with season id sid.
RecordOf(data, sid) == data[CHOOSE i \in DOMAIN data : data[i].sid = sid]

\* Of two records of one label, i before j, the one the claim keeps.
KeptOfTwo(data, i, j) ==
    IF Len(data[j].categories_data) > Len(data[i].categories_data) THEN j ELSE i

(* C15 as stated: after the dedup no two records have the same label, and of
   any two records with the same label the one with fewer categories is
   discarded (the later one on a tie), the survivor holding the categories of
   both and being current if either was. *)
C15_SmallerOfTwoDiscarded ==
    fn.op = "dedup" =>
        /\ LabelsDistinct(fn.deduped)
        /\ \A i, j \in DOMAIN fn.all_season_data :
              (i < j /\ fn.all_season_data[i].label = fn.all_season_data[j].label) =>
                 LET data == fn.all_season_data
                     w == KeptOfTwo(data, i, j)
                     l == IF w = i THEN j ELSE i
                 IN  /\ data[l].sid \notin SidsOf(fn.deduped)
                     /\ data[w].sid \in SidsOf(fn.deduped)
                     /\ Range(data[i].categories_data) \cup Range(data[j].categories_data)
                           \subseteq Range(RecordOf(fn.deduped, data[w].sid).categories_data)
                     /\ ("current" \in {data[i].status, data[j].status})
                           => RecordOf(fn.deduped, data[w].sid).status = "current"

(* C15 amended: after the dedup no two records have the same label and the
   survivors are in their former order; a record whose label no other record has
   is unchanged; of exactly two records with the same label the one with fewer
   categories is discarded (the later one on a tie) and the survivor holds its
   own categories followed by the other's; of any number of records with the
   same label exactly one survives, holding the categories of all of them, each
   once, and being current exactly when one of them was. *)
C15_DedupMergesSameLabel ==
    fn.op = "dedup" =>
        LET data == fn.all_season_data
            deduped == fn.deduped
        IN  /\ LabelsDistinct(deduped)
            /\ IsSubsequence([i \in DOMAIN deduped |-> deduped[i].sid],
                             [i \in DOMAIN data |-> data[i].sid])
            /\ {deduped[i].label : i \in DOMAIN deduped} = {data[i].label : i \in DOMAIN data}
            /\ \A d \in DOMAIN deduped :
                  LET same == WithLabel(data, deduped[d].label)
                      cats == deduped[d].categories_data
                  IN  /\ \E i \in same : data[i].sid = deduped[d].sid
                      /\ Range(cats) = UNION {Range(data[i].categories_data) : i \in same}
                      /\ Cardinality(Range(cats)) = Len(cats)
                      /\ deduped[d].status = "current"
                            <=> (\E i \in same : data[i].status = "current")
                      /\ Cardinality(same) = 1 => (\E i \in same : deduped[d] = data[i])
                      /\ Cardinality(same) = 2 =>
                            \E i, j \in same :
                               /\ i < j
                               /\ LET w == KeptOfTwo(data, i, j)
                                      l == IF w = i THEN j ELSE i
                                  IN  /\ deduped[d].sid = data[w].sid
                                      /\ cats = data[w].categories_data \o data[l].categories_data

\* Two records share a label, the later has more categories and survives, and
\* the earlier one was the current season.
C15_Witness ==
    /\ fn.op = "dedup"
    /\ \E i, j \in DOMAIN fn.all_season_data :
          /\ i < j
          /\ WithLabel(fn.all_season_data, fn.all_season_data[i].label) = {i, j}
          /\ fn.all_season_data[i].status = "current"
          /\ fn.all_season_data[j].sid \in SidsOf(fn.deduped)
          /\ Len(fn.deduped) = Len(fn.all_season_data) - 1

(* C16: the dedup applied to a collection whose labels are all distinct returns
   it unchanged, and applied to its own result it changes nothing. *)
C16_DedupIdempotent ==
    fn.op = "dedup" =>
        /\ LabelsDistinct(fn.all_season_data) => fn.deduped = fn.all_season_data
        /\ fn.again = fn.deduped

\* A collection of three seasons with distinct labels, and one where a merge
\* happened first: either is left as it is by a further dedup.
C16_Witness ==
    /\ fn.op = "dedup"
    /\ Len(fn.deduped) >= 2
    /\ Len(fn.all_season_data) > Len(fn.deduped)
    /\ fn.again = fn.deduped

(* C17: in the order handed to the renderer every current season precedes every
   finished one, the current seasons are in their former order, the finished
   seasons are in descending order of label, and no season is lost or added. *)
C17_CurrentFirstThenLabelDescending ==
    fn.op = "dedup" =>
        LET ordered == fn.ordered
        IN  /\ Range(ordered) = Range(fn.deduped)
            /\ Len(ordered) = Len(fn.deduped)
            /\ \A i, j \in DOMAIN ordered :
                  i < j =>
                     /\ ordered[j].status = "current" => ordered[i].status = "current"
                     /\ (ordered[i].status # "current" /\ ordered[j].status # "current")
                           => ordered[i].label.start > ordered[j].label.start
            /\ IsSubsequence(SelectSeq(ordered, LAMBDA sd : sd.status = "current"), fn.deduped)

\* The current season stood last and two finished seasons stood in ascending
\* order of label.
C17_Witness ==
    /\ fn.op = "dedup"
    /\ Len(fn.deduped) = 3
    /\ fn.deduped[3].status = "current"
    /\ fn.deduped[1].label.start < fn.deduped[2].label.start
    /\ fn.ordered[1].status = "current"

-----------------------------------------------------------------------------
(* Properties of infer_season_info, checked under SpecFn *)

\* The date texts of the matches of cats that carry a date and a time of day.
DatedTexts(cats) ==
    UNION {{cats[i].matches[j].date[1] :
               j \in {j \in DOMAIN cats[i].matches :
                        /\ cats[i].matches[j].date # <<>>
                        /\ Len(cats[i].matches[j].date[1]) = 6}} :
           i \in DOMAIN cats}

\* Months since year 0 of a date text.
MonthNumber(d) == d[1] * 12 + d[2]

\* The start year the cutoff gives for a date of year y and month m.
CutoffYear(y, m) == IF m >= 7 THEN y ELSE y - 1

\* The year each of the names drawn holds a pattern of, if any.
PatternYear(name) ==
    CASE name = <<"A", " ", "2", "0", "2", "3", "/", "2", "4">> -> Some(2023)
      [] name = <<"2", "0", "2", "/", "2", "0", "2", "1", "-", "2", "2">> -> Some(2021)
      [] OTHER -> None

(* C18: when at least one match has a date (a text "YYYY-MM-DD HH:MM:SS", the
   only kind strptime reads a year and a month from), infer_season_info returns
   the start year of the earliest date (year Y, month M), Y if M >= 7 and Y - 1 otherwise,
   with the label <start>-<(start + 1) mod 100>; matches dated only in June of Y
   give (Y - 1)-(Y mod 100), matches dated only in September of Y give
   Y-((Y + 1) mod 100). *)
C18_SeasonLabelCutoff ==
    fn.op = "infer_season_info" =>
        LET dated == DatedTexts(fn.categories_data)
        IN  dated # {} =>
               /\ \E d \in dated :
                     /\ \A e \in dated : MonthNumber(d) <= MonthNumber(e)
                     /\ fn.result.start_year = CutoffYear(d[1], d[2])
               /\ fn.result.label.start = fn.result.start_year
               /\ fn.result.label.suffix = (fn.result.start_year + 1) % 100
               /\ fn.result.label.suffix \in 0..99
               /\ \A y \in {d[1] : d \in dated} :
                     /\ (\A d \in dated : d[1] = y /\ d[2] = 6)
                           => fn.result.label = [start |-> y - 1, suffix |-> y % 100]
                     /\ (\A d \in dated : d[1] = y /\ d[2] = 9)
                           => fn.result.label = [start |-> y, suffix |-> (y + 1) % 100]

\* A June match in the second category and a later match in the first: the
\* season is the one that started the year before.
C18_Witness ==
    /\ fn.op = "infer_season_info"
    /\ \E j \in DOMAIN fn.categories_data[2].matches :
          fn.categories_data[2].matches[j].date = DateText(2024, 6, 15)
    /\ \E j \in DOMAIN fn.categories_data[1].matches :
          fn.categories_data[1].matches[j].date = DateText(2099, 12, 1)
    /\ fn.result.label = [start |-> 2023, suffix |-> 24]

(* C19: the match-date rule is used whenever a dated match exists (a match whose
   date is a text "YYYY-MM-DD HH:MM:SS"), whatever the tournament names; only without a dated match is the year pattern of a
   tournament name used (the first category whose name has one; a name
   containing 2023/24 gives 2023-24); only when no name has a pattern either is
   the current calendar year used. *)
C19_ThreeTierFallback ==
    fn.op = "infer_season_info" =>
        LET cats == fn.categories_data
            dated == DatedTexts(cats)
            named == {i \in DOMAIN cats : ~IsNone(PatternYear(cats[i].tournament_name))}
        IN  /\ dated # {} =>
                  \E d \in dated :
                     /\ \A e \in dated : MonthNumber(d) <= MonthNumber(e)
                     /\ fn.result.start_year = CutoffYear(d[1], d[2])
            /\ (dated = {} /\ named # {}) =>
                  \E i \in named :
                     /\ \A j \in named : i <= j
                     /\ fn.result.start_year = Val(PatternYear(cats[i].tournament_name))
            /\ (dated = {} /\ named # {}
                   /\ \A i \in named : PatternYear(cats[i].tournament_name) = Some(2023))
                  => fn.result.label = [start |-> 2023, suffix |-> 24]
            /\ (dated = {} /\ named = {}) => fn.result.start_year = NowYear
            /\ fn.result.label = [start |-> fn.result.start_year,
                                  suffix |-> (fn.result.start_year + 1) % 100]

\* No match has a date, the first name has no year pattern and the second holds
\* 2023/24: the label is 2023-24.
C19_Witness ==
    /\ fn.op = "infer_season_info"
    /\ DatedTexts(fn.categories_data) = {}
    /\ fn.categories_data[1].matches # <<>>
    /\ PatternYear(fn.categories_data[1].tournament_name) = None
    /\ PatternYear(fn.categories_data[2].tournament_name) = Some(2023)
    /\ fn.result.label = [start |-> 2023, suffix |-> 24]

-----------------------------------------------------------------------------
(* Properties of the match order, checked under SpecFn *)

\* Days of a date text, counting every month as 31 days.
DayNumber(d) == (d[1] * 12 + d[2]) * 31 + d[3]

(* C20: in the matches of the Category the matches with a date are in ascending
   order of date, every match without a date comes after every match with one,
   the matches without a date are in the order in which they were collected
   (groups, then rounds, then the order of the answer), and the matches are
   those collected. *)
C20_MatchesByDateNullLast ==
    fn.op = "collect_matches" =>
        LET matches == fn.matches
            upstream == Concat([g \in DOMAIN fn.groups |-> Concat(fn.groups[g])])
        IN  /\ Len(matches) = Len(upstream)
            /\ {matches[i].id : i \in DOMAIN matches} = {upstream[i].id : i \in DOMAIN upstream}
            /\ \A i \in DOMAIN matches :
                  \E u \in DOMAIN upstream :
                     upstream[u].id = matches[i].id /\ upstream[u].date = matches[i].date
            /\ \A i, j \in DOMAIN matches :
                  i < j =>
                     /\ IsNone(matches[i].date) => IsNone(matches[j].date)
                     /\ (~IsNone(matches[i].date) /\ ~IsNone(matches[j].date))
                           => DayNumber(Val(matches[i].date)) <= DayNumber(Val(matches[j].date))
            /\ IsSubsequence(
                  SelectSeq([i \in DOMAIN matches |-> matches[i].id],
                            LAMBDA id : IsNone(upstream[id].date)),
                  SelectSeq([i \in DOMAIN upstream |-> upstream[i].id],
                            LAMBDA id : IsNone(upstream[id].date)))

\* Two matches without a date were collected before two dated ones, the later
\* date first; the dated ones are returned first, the earlier date leading.
C20_Witness ==
    /\ fn.op = "collect_matches"
    /\ Len(fn.all_matches) = 4
    /\ IsNone(fn.all_matches[1].date) /\ IsNone(fn.all_matches[2].date)
    /\ fn.all_matches[3].date = DateText(2025, 3, 8)
    /\ fn.all_matches[4].date = DateText(2024, 9, 1)
    /\ fn.all_matches[2].group_id # fn.all_matches[3].group_id
    /\ [i \in 1..4 |-> fn.matches[i].id] = <<4, 3, 1, 2>>

-----------------------------------------------------------------------------
(* Properties of the team names, checked under SpecFn *)

\* The team ids the matches name as home or away team.
MatchTeamIds(all_matches) ==
    {all_matches[i].home_team[1] :
        i \in {i \in DOMAIN all_matches : all_matches[i].home_team # <<>>}}
    \cup {all_matches[i].away_team[1] :
        i \in {i \in DOMAIN all_matches : all_matches[i].away_team # <<>>}}

(* C21 as stated: every home and away team id of every match is a key of
   team_names; a team absent from all standings has the name of the per-team
   lookup, and a placeholder name when that lookup failed. *)
C21_AbsentTeamNamedByLookup ==
    fn.op = "team_names" =>
        /\ MatchTeamIds(fn.all_matches) \subseteq DOMAIN fn.team_names
        /\ \A t \in MatchTeamIds(fn.all_matches) \ fn.standing_ids :
              fn.team_names[t] =
                 IF fn.lookup[t] = "ok" THEN [from |-> "lookup", id |-> t]
                 ELSE [from |-> "placeholder", id |-> t]

(* C21 amended: every home and away team id of every match is a key of
   team_names; a team of the club has the name of the tournament's our_teams,
   whether or not it is in the standings and however its lookup ended; any other
   team absent from all standings has the name of the per-team lookup, and a
   placeholder name when that lookup failed; any other team of the standings
   has the name of its standings row and is not looked up. *)
C21_TeamNamesCoverMatches ==
    fn.op = "team_names" =>
        /\ MatchTeamIds(fn.all_matches) \subseteq DOMAIN fn.team_names
        /\ DOMAIN fn.lookup = MatchTeamIds(fn.all_matches) \ fn.standing_ids
        /\ \A t \in DOMAIN fn.team_names :
              fn.team_names[t] =
                 IF t \in fn.our_team_ids THEN [from |-> "our_teams", id |-> t]
                 ELSE IF t \in fn.standing_ids THEN [from |-> "standings", id |-> t]
                 ELSE IF fn.lookup[t] = "ok" THEN [from |-> "lookup", id |-> t]
                 ELSE [from |-> "placeholder", id |-> t]

\* Team c plays, is in no standings and its lookup fails; the club's team a
\* plays, is in no standings either and its lookup fails too.
C21_Witness ==
    /\ fn.op = "team_names"
    /\ {"a", "c"} \subseteq MatchTeamIds(fn.all_matches) \ fn.standing_ids
    /\ fn.lookup["a"] = "error" /\ fn.lookup["c"] = "error"
    /\ fn.team_names["c"] = [from |-> "placeholder", id |-> "c"]
    /\ fn.team_names["a"] = [from |-> "our_teams", id |-> "a"]

-----------------------------------------------------------------------------
(* Properties of the match outcomes, checked under SpecFn *)

\* The value of the last result of the match that names this team, None when no
\* result names it or that value is null.
LastValueFor(match, team) ==
    LET naming == {i \in DOMAIN match.results : match.results[i].team_id = team}
    IN  IF naming = {} THEN <<>>
        ELSE match.results[CHOOSE i \in naming : \A j \in naming : j <= i].value

(* C25: match_result_class gives upcoming for a match that is not finished;
   unknown, and no error, for a finished match without a result for the home
   side or for the away side; and otherwise win, loss or draw as the club team's
   score is above, below or equal to the opponent's, so a finished 5-3 match with
   the club team at home is a win. *)
C25_MatchOutcome ==
    fn.op = "match_result_class" =>
        LET m == fn.match
            club == CHOOSE t \in fn.our_team_ids : TRUE
            other == IF m.home_team[1] = club THEN m.away_team[1] ELSE m.home_team[1]
            ours == LastValueFor(m, club)
            theirs == LastValueFor(m, other)
        IN  /\ fn.result \in {"upcoming", "unknown", "win", "loss", "draw"}
            /\ ~m.finished => fn.result = "upcoming"
            /\ (m.finished /\ (ours = <<>> \/ theirs = <<>>)) => fn.result = "unknown"
            /\ (m.finished /\ ours # <<>> /\ theirs # <<>>) =>
                  fn.result = IF ours[1] > theirs[1] THEN "win"
                              ELSE IF ours[1] < theirs[1] THEN "loss"
                              ELSE "draw"
            /\ (m.finished /\ m.home_team = <<club>>
                   /\ [i \in DOMAIN m.results |-> <<m.results[i].team_id, m.results[i].value>>]
                         = << <<club, <<5>> >>, <<other, <<3>> >> >>)
                  => fn.result = "win"

\* A finished match with the club team away, 3 for the home side and 5 for the
\* club: a win.
C25_Witness ==
    /\ fn.op = "match_result_class"
    /\ fn.match.finished
    /\ fn.match.away_team = <<"a">>
    /\ fn.score = [home |-> <<3>>, away |-> <<5>>]
    /\ fn.result = "win"

(* C28: get_round_matches gives each match every result the match references
   that is in the included list, wherever results and matches stand in it. *)
C28_ResultsAttachedInAnyOrder ==
    fn.op = "get_round_matches" =>
        \A i \in DOMAIN fn.included :
            fn.included[i].type = "match" =>
                \E m \in DOMAIN fn.matches :
                    /\ fn.matches[m].id = fn.included[i].id
                    /\ {fn.matches[m].results[j].team_id : j \in DOMAIN fn.matches[m].results}
                          = {fn.included[r].team_id :
                                r \in {r \in DOMAIN fn.included :
                                         /\ fn.included[r].type = "result"
                                         /\ fn.included[r].id \in Range(fn.included[i].results)}}

\* The finished matches of the entry and those of them that have both scores.
FinishedOf(matches) == {i \in DOMAIN matches : matches[i].finished}
ScoredOf(matches) ==
    {i \in FinishedOf(matches) :
        /\ LastValueFor(matches[i], matches[i].home_team[1]) # <<>>
        /\ LastValueFor(matches[i], matches[i].away_team[1]) # <<>>}

(* C30: in the record of a team a finished match whose outcome is unknown is
   counted in none of wins, draws and losses: their sum is the number of the
   team's finished matches that have both scores. *)
C30_UnknownCountedNowhere ==
    fn.op = "team_record" =>
        fn.record.wins + fn.record.draws + fn.record.losses
            = Cardinality(ScoredOf(fn.matches))

====
